---- MODULE Spec2Model ----
(***************************************************************************)
(* A model of godasse's deserializer (src/deserialize/deserialize.go).    *)
(*                                                                         *)
(* A deserializer is built once for a target record type and then asked   *)
(* to decode inputs.  The target types range over a small family of Go    *)
(* struct types described by a configuration record (SchemaCfg); inputs   *)
(* range over small JSON-like trees; the behaviour of the user hooks      *)
(* (Initialize, Validate, orMethod constructors) and the iteration order  *)
(* of Go maps are drawn from an oracle.                                    *)
(***************************************************************************)
EXTENDS Integers, Sequences, FiniteSets, TLC

(***************************************************************************)
(* Bounds of the model.                                                    *)
(***************************************************************************)
\* Longest input sequence and largest number of keys of an input dictionary
\* decoded into a slice, array or map field.
MaxItems == 2

(***************************************************************************)
(* Go values (the contents of a reflect.Value slot).                       *)
(***************************************************************************)
S(n) == [k |-> "s", v |-> n]
Nil == [k |-> "nil"]
PtrTo(v) == [k |-> "ptr", to |-> v]
SeqV(items) == [k |-> "seq", items |-> items]
MapV(f) == [k |-> "map", ents |-> f]
RecV(f) == [k |-> "rec", f |-> f]

\* The value written by the user hooks of the modelled types: Initialize
\* writes InitV in every scalar it reaches, an orMethod constructor builds
\* its result from OrV, and the `default` literal of a scalar is DefaultLit.
InitV == 3
OrV == 4
\* The values the decoding hooks of the modelled types write in every scalar:
\* UnmarshalJSON, UnmarshalText and UnmarshalDict.
RawV == 6
TextV == 7
DictV == 8
DefaultLit == "5"
\* The length of the array type [ArrayLen]T of the modelled family.
ArrayLen == MaxItems

(***************************************************************************)
(* Inputs (shared.Value).  Absent is Go's nil shared.Value ("no value at   *)
(* this position"); Null is a present JSON null; EmptyValue is             *)
(* internal.EmptyValue.                                                     *)
(***************************************************************************)
Absent == [k |-> "absent"]
Null == [k |-> "null"]
EmptyValue == [k |-> "empty"]
Num(n) == [k |-> "num", v |-> n]
Str(s) == [k |-> "str", v |-> s]
List(items) == [k |-> "list", items |-> items]
Dict(f) == [k |-> "dict", ents |-> f]
NoEntries == [x \in {} |-> Absent]

\* json.Value.AsDict / internal.EmptyValue.AsDict: does the value stand for a
\* dictionary, and which entries does it have.
AsDictOk(in) == in.k \in {"dict", "null", "empty"}
AsDictEntries(in) == IF in.k = "dict" THEN in.ents ELSE NoEntries

\* json.Value.AsSlice / internal.EmptyValue.AsSlice.
AsSliceOk(in) == in.k = "list"
AsSliceItems(in) == IF in.k = "list" THEN in.items ELSE <<>>

\* A Lookup that reports a missing key as a present zero.
LookupZero(ents, key) == IF key \in DOMAIN ents THEN ents[key] ELSE Num(0)

\* json.JSON.Lookup / internal.EmptyDict.Lookup: a missing key is reported as
\* a nil shared.Value.
Lookup(ents, key) == IF key \in DOMAIN ents THEN ents[key] ELSE Absent

\* json.JSON.AsValue / internal.EmptyDict.AsValue: the dictionary a flattened
\* field is decoded from is the enclosing dictionary itself.
DictAsValue(in) == IF in.k = "empty" THEN EmptyValue ELSE Dict(AsDictEntries(in))

(***************************************************************************)
(* Tags of a field (tags.Tags).                                            *)
(***************************************************************************)
NoTags ==
    [hasDefault |-> FALSE, default |-> "", method |-> "",
     initialized |-> FALSE, flatten |-> FALSE, exported |-> TRUE]

\* tags.Default() != nil && *tags.Default() == lit.
IsDefault(tg, lit) == tg.hasDefault /\ tg.default = lit

\* shared.LookupParser: only primitive kinds have a parser from strings.
HasParser(t) == t.kind = "scalar"

\* strconv.Atoi on the literals of the model: digits parse to their number,
\* anything else fails.
ParseOk(lit) == lit \in {"0", "1", "2", "3", "4", "5"}

\* A parser that returns the zero value whatever the literal.
ParseAsZero(lit) == 0

Parse(lit) ==
    CASE lit = "0" -> 0 [] lit = "1" -> 1 [] lit = "2" -> 2
      [] lit = "3" -> 3 [] lit = "4" -> 4 [] lit = "5" -> 5
      [] OTHER -> 0

(***************************************************************************)
(* The family of target types.                                             *)
(*                                                                         *)
(*   type Root struct {                                                    *)
(*       A int `json:"a"`                                                  *)
(*       F <FT> `json:"f" <tags>`                                          *)
(*   }                                                                     *)
(*   type Inner struct {                                                   *)
(*       X int  [`default:"5"`]                                            *)
(*       G Leaf `default:"{}"`                                             *)
(*   }                                                                     *)
(*   type Leaf struct { Z int `default:"5"` }                              *)
(*                                                                         *)
(* where FT is int, Inner, or a pointer, slice, array or map of int or of  *)
(* Inner.  Root and Inner optionally implement Initializer and Validator   *)
(* (on pointers); Root and Leaf implement Validator.                       *)
(*                                                                         *)
(* A configuration also names a variant of the declaration of F (cfg.var): *)
(* "plain" is the declaration above; the other variants change one thing   *)
(* about it (its tags, its visibility, the method its `orMethod` names,    *)
(* the key type of a map, the receiver of a hook of the types).            *)
(***************************************************************************)
FieldKinds == {"scalar", "record", "ptr", "slice", "array", "map"}

IntT == [kind |-> "scalar", name |-> "int"]

\* A declared field: its Go name, its public name under the renaming tag,
\* whether Go exports it, its type, its tags, and the keys of its struct
\* tag as written.
Field(name, public, typ, tags) ==
    [name |-> name, public |-> public, exported |-> TRUE, typ |-> typ, tags |-> tags,
     keys |-> <<"json">>]

\* Leaf.Validate rejects Z = 1.
LeafT ==
    [kind |-> "record", name |-> "Leaf", init |-> FALSE, onValue |-> FALSE,
     raw |-> FALSE, dict |-> FALSE,
     hasVal |-> TRUE, valField |-> "Z", bad |-> {1},
     fields |-> << Field("Z", "Z", IntT,
                         [NoTags EXCEPT !.hasDefault = TRUE, !.default = DefaultLit]) >>]

\* The set of values of X that Inner.Validate rejects.
BadOf(val) == IF val = "rej2" THEN {2} ELSE {}

\* The variants in which a record type has decoding hooks of its own, on
\* Inner when F is an Inner, else on Root: a raw decode hook (the type
\* implements json.Unmarshaler and encoding.TextUnmarshaler on pointers, as
\* time.Time does), UnmarshalDict, the raw hook and Initializer, or the raw
\* hook and UnmarshalDict.
HookVariants == {"hookRaw", "hookDict", "hookRawInit", "hookBoth"}

\* The variant in which F is a slice or an array of Inner and Inner has the
\* raw decode hook: F []Inner, Inner implementing encoding.TextUnmarshaler
\* on pointers.
ElemHookVariants == {"hookElems"}
HasRaw(cfg) == cfg.var \in {"hookRaw", "hookRawInit", "hookBoth"} \cup ElemHookVariants
HasDict(cfg) == cfg.var \in {"hookDict", "hookBoth"}

\* In variant "onValue" a hook is declared on the value receiver: on Inner
\* when Inner occurs in the type, else on Root.
InnerT(cfg) ==
    [kind |-> "record", name |-> "Inner",
     init |-> cfg.innerInit \/ cfg.var = "hookRawInit",
     onValue |-> cfg.var = "onValue",
     raw |-> HasRaw(cfg), dict |-> HasDict(cfg),
     hasVal |-> cfg.val # "none", valField |-> "X", bad |-> BadOf(cfg.val),
     fields |-> << Field("X", "X", IntT,
                         IF cfg.xdef
                         THEN [NoTags EXCEPT !.hasDefault = TRUE, !.default = DefaultLit]
                         ELSE NoTags),
                   Field("G", "G", LeafT,
                         [NoTags EXCEPT !.hasDefault = TRUE, !.default = "{}",
                                        !.flatten = (cfg.var \in {"flattenAll",
                                                                    "flattenTwice"})]) >>]

\* The element type of F: int, Inner or, in variant "nested", []int.
ElemT(cfg) ==
    CASE cfg.elem = "record" -> InnerT(cfg)
      [] cfg.elem = "slice" -> [kind |-> "slice", name |-> "", elem |-> IntT]
      [] OTHER -> IntT

\* The variants in which the type of F is a named type that implements
\* Validator on pointers: `type Score int`, `type Scores []int`,
\* `type Scores [n]int` or `type Scores map[string]int`, with a Validate
\* that rejects a 2.
NamedVariants == {"named"}
NamedT(cfg) ==
    CASE cfg.kind = "scalar" ->
           [kind |-> "scalar", name |-> "Score", hasVal |-> TRUE, bad |-> {2}]
      [] cfg.kind = "slice" ->
           [kind |-> "slice", name |-> "Scores", elem |-> IntT, hasVal |-> TRUE,
            bad |-> {2}]
      [] cfg.kind = "array" ->
           [kind |-> "array", name |-> "Scores", elem |-> IntT, len |-> ArrayLen,
            hasVal |-> TRUE, bad |-> {2}]
      [] OTHER ->
           [kind |-> "map", name |-> "Scores", elem |-> IntT, key |-> "string",
            hasVal |-> TRUE, bad |-> {2}]

\* The variant in which the type of F is a named scalar type with a raw
\* decode hook: `type Level int`, which implements json.Unmarshaler and
\* encoding.TextUnmarshaler on pointers.
ScalarHookVariants == {"hookScalar"}
LevelT == [kind |-> "scalar", name |-> "Level", raw |-> TRUE]

\* The type of field F.
FieldT(cfg) ==
    CASE cfg.var \in NamedVariants -> NamedT(cfg)
      [] cfg.var \notin NamedVariants /\ cfg.kind = "scalar" ->
           IF cfg.var \in ScalarHookVariants THEN LevelT ELSE IntT
      [] cfg.var \notin NamedVariants /\ cfg.kind = "record" -> InnerT(cfg)
      [] cfg.var \notin NamedVariants /\ cfg.kind = "ptr" ->
           [kind |-> "ptr", name |-> "", elem |-> ElemT(cfg)]
      [] cfg.var \notin NamedVariants /\ cfg.kind = "slice" ->
           [kind |-> "slice", name |-> "", elem |-> ElemT(cfg)]
      [] cfg.var \notin NamedVariants /\ cfg.kind = "array" ->
           [kind |-> "array", name |-> "", elem |-> ElemT(cfg), len |-> ArrayLen]
      [] OTHER ->
           [kind |-> "map", name |-> "", elem |-> ElemT(cfg),
            key |-> IF cfg.var = "mapKey" THEN "int" ELSE "string"]

\* The literal a `default` tag may carry for a field of each kind.
DefaultFor(kind) ==
    CASE kind = "scalar" -> DefaultLit
      [] kind = "ptr" -> "nil"
      [] kind \in {"slice", "array"} -> "[]"
      [] OTHER -> "{}"

\* A literal that is the supported one of another kind.
OtherDefaultFor(kind) ==
    CASE kind = "scalar" -> "nil"
      [] kind = "ptr" -> "{}"
      [] kind \in {"slice", "array"} -> "nil"
      [] OTHER -> "[]"

\* The variants in which F is tagged `flatten`; in "flattenAll" field G of
\* Inner is tagged `flatten` as well; in "flattenTwice" Root moreover embeds
\* Inner:
\*   type Root struct { A int `json:"a"`; F Inner `json:"f" flatten:""`; Inner }
\* The flatten tag of a declared field stands for tags.IsFlattened() ||
\* field.Anonymous, the one condition the code tests.
FlattenVariants == {"flatten", "flattenAll", "flattenTwice"}

\* The variant in which F is tagged `flatten` and renamed "-":
\*   F Inner `json:"-" flatten`
\* with F pre-initialized (tag `initialized`, or Root implements
\* Initializer).
PrivateFlattenVariants == {"dashFlatten"}

\* The method the `orMethod` tag of F names, by variant.
MethodNamed(cfg) ==
    CASE cfg.var = "noMethod" -> "IDoNotExist"
      [] cfg.var = "methodArgs" -> "BadArgs"
      [] cfg.var = "methodOut" -> "BadOut3"
      [] cfg.var = "methodType" -> "BadOut1"
      [] cfg.var = "methodErr" -> "BadOut2"
      [] OTHER -> "MakeF"

\* The `default` literal of F, by variant.
DefaultNamed(cfg) ==
    CASE cfg.var = "badDefault" -> "abc"
      [] cfg.var = "otherDefault" -> OtherDefaultFor(cfg.kind)
      [] OTHER -> DefaultFor(cfg.kind)

\* The tags of field F.  Variant "both" declares both a `default` and an
\* `orMethod`.
FieldTags(cfg) ==
    [hasDefault |-> cfg.fb = "default" \/ cfg.var = "both",
     default |-> IF cfg.fb = "default" \/ cfg.var = "both" THEN DefaultNamed(cfg) ELSE "",
     method |-> IF cfg.fb = "orMethod" \/ cfg.var = "both" THEN MethodNamed(cfg) ELSE "",
     initialized |-> cfg.pre = "tag",
     flatten |-> cfg.var \in FlattenVariants \cup PrivateFlattenVariants,
     exported |-> TRUE]

\* The declaration of F: variant "unexported" declares it `f`, variant
\* "dash" renames it "-", variant "dupTag" writes the renaming tag twice.
FieldF(cfg) ==
    [name |-> "F",
     public |-> IF cfg.var \in {"dash", "dashFlatten"} THEN "-" ELSE "f",
     exported |-> cfg.var # "unexported",
     typ |-> FieldT(cfg),
     tags |-> FieldTags(cfg),
     keys |-> IF cfg.var = "dupTag" THEN <<"json", "json">> ELSE <<"json">>]

\* Root.Validate rejects A = 2.
RootT(cfg) ==
    [kind |-> "record", name |-> "Root",
     init |-> cfg.pre = "rootInit" \/ (cfg.var = "hookRawInit" /\ cfg.elem # "record"),
     onValue |-> cfg.var = "onValue" /\ cfg.elem # "record",
     raw |-> HasRaw(cfg) /\ cfg.elem # "record",
     dict |-> HasDict(cfg) /\ cfg.elem # "record",
     hasVal |-> TRUE, valField |-> "A", bad |-> {2},
     fields |-> << Field("A", "a", IntT, NoTags), FieldF(cfg) >>
                  \o IF cfg.var = "flattenTwice"
                     THEN << Field("Inner", "Inner", InnerT(cfg),
                                   [NoTags EXCEPT !.flatten = TRUE]) >>
                     ELSE <<>>]

\* The variants of the declaration of F that change nothing but what its
\* fallback tags say, how it is named, or how the hooks are declared.
TagVariants ==
    {"both", "noMethod", "methodArgs", "methodOut", "methodType", "methodErr",
     "badDefault", "otherDefault", "mapKey", "dupTag", "onValue"}
NameVariants == {"unexported", "dash"}

\* The configurations of the family.  The flags of Inner vary only when
\* Inner occurs in the type; the variants other than "plain" are taken
\* without hooks on Inner.
SchemaCfg ==
    { c \in [kind : FieldKinds, elem : {"scalar", "record", "slice"},
             fb : {"none", "default", "orMethod"},
             pre : {"none", "tag", "rootInit"},
             innerInit : BOOLEAN, val : {"none", "rej2"},
             xdef : BOOLEAN,
             var : {"plain", "nested"} \cup TagVariants \cup NameVariants
                     \cup FlattenVariants \cup PrivateFlattenVariants
                     \cup HookVariants \cup NamedVariants \cup ScalarHookVariants
                     \cup ElemHookVariants] :
        /\ (c.kind = "scalar" => c.elem = "scalar")
        /\ (c.kind = "record" => c.elem = "record")
        /\ (c.elem # "record" => ~c.innerInit /\ c.val = "none" /\ ~c.xdef)
        /\ (c.xdef => ~c.innerInit /\ c.val = "none")
        /\ (c.elem = "slice" <=> c.var = "nested")
        /\ (c.var = "nested" => c.kind \in {"slice", "array"} /\ c.pre = "none")
        /\ (c.var \in FlattenVariants => c.kind = "record" /\ c.pre = "none")
        /\ (c.var \in PrivateFlattenVariants => c.kind = "record" /\ c.pre # "none")
        /\ (c.var \in HookVariants => c.kind \in {"scalar", "record"} /\ c.pre = "none")
        /\ (c.var \in NamedVariants =>
              /\ c.kind \in {"scalar", "slice", "array", "map"}
              /\ c.elem = "scalar" /\ c.pre = "none")
        /\ (c.var \in ScalarHookVariants => c.kind = "scalar" /\ c.pre = "none")
        /\ (c.var \in ElemHookVariants =>
              c.kind \in {"slice", "array"} /\ c.elem = "record" /\ c.pre = "none")
        /\ (c.var # "plain" => ~c.innerInit /\ c.val = "none" /\ ~c.xdef)
        /\ (c.var \in TagVariants => c.pre = "none")
        /\ (c.var \in {"noMethod", "methodArgs", "methodOut", "methodType", "methodErr"}
              => c.fb = "orMethod")
        /\ (c.var \in {"badDefault", "otherDefault"} => c.fb = "default")
        /\ (c.var \in {"both", "mapKey", "dupTag", "onValue", "nested"} \cup NameVariants
                       \cup PrivateFlattenVariants \cup HookVariants
                       \cup NamedVariants \cup ScalarHookVariants
                       \cup ElemHookVariants
              => c.fb = "none")
        /\ (c.var = "mapKey" => c.kind = "map") }

(***************************************************************************)
(* Values of the types.                                                    *)
(***************************************************************************)
\* The names of the declared fields of a record type, and the field of a
\* given name.
FieldNames(t) == {t.fields[i].name : i \in DOMAIN t.fields}
FieldNamed(t, n) == t.fields[CHOOSE i \in DOMAIN t.fields : t.fields[i].name = n]

RECURSIVE Zero(_)
\* reflect.Zero / reflect.New(t).Elem().
Zero(t) ==
    CASE t.kind = "scalar" -> S(0)
      [] t.kind = "array" -> SeqV([i \in 1..t.len |-> Zero(t.elem)])
      [] t.kind = "record" ->
           RecV([n \in FieldNames(t) |-> Zero(FieldNamed(t, n).typ)])
      [] OTHER -> Nil

RECURSIVE Made(_, _)
\* A value of type t all of whose scalars are n, as the user hooks of the
\* modelled types build it.
Made(t, n) ==
    CASE t.kind = "scalar" -> S(n)
      [] t.kind = "ptr" -> PtrTo(Made(t.elem, n))
      [] t.kind = "slice" -> SeqV(<< Made(t.elem, n) >>)
      [] t.kind = "array" -> SeqV([i \in 1..t.len |-> Made(t.elem, n)])
      [] t.kind = "map" -> MapV([key \in {"k1"} |-> Made(t.elem, n)])
      [] t.kind = "record" ->
           RecV([nm \in FieldNames(t) |-> Made(FieldNamed(t, nm).typ, n)])

\* What (*T).Initialize writes into the instance of a modelled type.
InitializeOf(t) == Made(t, InitV)

\* What the orMethod constructor of a field of type t returns.
Constructed(t) == Made(t, OrV)

\* (*T).Validate of a modelled type: rejects the instance when its watched
\* field holds a rejected value.
Rejects(t, inst) == t.hasVal /\ inst.f[t.valField].v \in t.bad

\* Validate of a named scalar, slice, array or map type rejects the value
\* v: v is, or holds, a number that the type rejects.
NamedRejects(t, v) ==
    CASE v.k = "s" -> v.v \in t.bad
      [] v.k = "seq" -> \E i \in DOMAIN v.items : v.items[i].v \in t.bad
      [] v.k = "map" -> \E key \in DOMAIN v.ents : v.ents[key].v \in t.bad
      [] OTHER -> FALSE

(***************************************************************************)
(* Errors.  An error is the chain fmt.Errorf("...%w") builds: msg is the   *)
(* text of Error() as a sequence of tokens, outermost context first; `as`  *)
(* is the set of error types errors.As finds in the chain; op and          *)
(* structure are the fields of the CustomDeserializerError of the chain.   *)
(* A panic of the Go runtime is recorded as an error with panic = TRUE.    *)
(***************************************************************************)
NoErr ==
    [ok |-> TRUE, panic |-> FALSE, as |-> {}, op |-> "", structure |-> "", msg |-> <<>>]

\* errors.New / fmt.Errorf without %w.
Plain(msg) == [NoErr EXCEPT !.ok = FALSE, !.msg = msg]

\* fmt.Errorf(prefix + "%v", inner): the text is kept, the chain is lost.
WrapAsText(prefix, inner) == Plain(prefix \o inner.msg)

\* fmt.Errorf(prefix + "%w", inner).
Wrap(prefix, inner) == [inner EXCEPT !.msg = prefix \o inner.msg]

\* CustomDeserializerError{Wrapped: fmt.Errorf(prefix + "%w", userErr), ...};
\* its Error() is the text of Wrapped.
Custom(op, structure, prefix, userMsg) ==
    [ok |-> FALSE, panic |-> FALSE, as |-> {"custom"}, op |-> op,
     structure |-> structure, msg |-> prefix \o userMsg]

\* validation.WrapError(path, err): a validation.Error carrying the path
\* at which the value was rejected and the error Validate returned.
WrapError(path, userMsg) ==
    [ok |-> FALSE, panic |-> FALSE, as |-> {"validation"}, op |-> "",
     structure |-> "",
     msg |-> <<"validation error at ">> \o path \o <<":\n\t * ">> \o userMsg]

GoPanic(msg) == [NoErr EXCEPT !.ok = FALSE, !.panic = TRUE, !.msg = msg]

\* The errors returned by the user hooks of the modelled types.
InitializeError(t) == << t.name \o ".Initialize failed" >>
ValidateError(t) == << t.name \o ".Validate rejected" >>
OrMethodError(tg) == << tg.method \o " failed" >>

\* The name of the Initialize hook of type t and of a constructor, as the
\* oracle names the hooks that fail.
InitHook(t) == t.name \o ".Initialize"
RawHook(t) == t.name \o ".UnmarshalJSON"
TextHook(t) == t.name \o ".UnmarshalText"
DictHook(t) == t.name \o ".UnmarshalDict"

\* typeName(typ): the name of a named type, "" for an unnamed one.
TypeName(t) == << t.name >>

ErrInitializer(path, t, structure) ==
    Custom("initializer", structure,
           <<"at ">> \o path
             \o <<", encountered an error while initializing optional fields:\n\t * ">>,
           InitializeError(t))

ErrOrMethod(path, tg, structure) ==
    Custom("orMethod", structure,
           <<"error in optional value at ">> \o path \o <<"\n\t * ">>,
           OrMethodError(tg))

(***************************************************************************)
(* The events of one decode call, in the order in which they happen.       *)
(* `at` is the position of the record instance or field in the decoded     *)
(* tree ("Root", then ".name" for a field, "[i]" for an element, the key   *)
(* for a map entry, "*" for the target of a pointer); `by` names the type  *)
(* or hook the event belongs to.                                           *)
(***************************************************************************)
Ev(e, at, by) == [e |-> e, at |-> at, by |-> by]

\* The result of running a plan: the error it returns, the content of the
\* slot it was asked to fill when it returns, and what happened.
R(err, slot, tr) == [err |-> err, slot |-> slot, tr |-> tr]

\* The order in which a `range` over a Go map of n entries visits them.
Order(n, o) == IF o.order = "fwd" THEN [i \in 1..n |-> i] ELSE [i \in 1..n |-> n + 1 - i]

\* The keys of a dictionary in the order Keys() returns them: "k1", "k2", ...
\* or the reverse.
KeyName(i) == CASE i = 1 -> "k1" [] i = 2 -> "k2" [] i = 3 -> "k3" [] OTHER -> "k4"
KeysOf(ents, o) ==
    LET n == Cardinality(DOMAIN ents)
    IN [i \in 1..n |-> KeyName(Order(n, o)[i])]

\* reflect.Value.CanConvert(fieldType) for the dynamic value of an input:
\* a Go value of the field's own type converts, a JSON number (float64)
\* converts to int, nothing else does.
CanConvert(input, t) ==
    \/ input.k \in {"s", "nil", "ptr", "seq", "map", "rec"}
    \/ input.k = "num" /\ t.kind = "scalar"

\* reflect.Value.Convert(fieldType).
ConvertTo(input, t) == IF input.k = "num" THEN S(input.v) ELSE input

(***************************************************************************)
(* initializationData: which hooks of a record type the plans use.  Both   *)
(* drivers report ShouldUnmarshal for a type with the raw hook.            *)
(***************************************************************************)
ShouldUnmarshal(t) == "raw" \in DOMAIN t /\ t.raw

CanInitializeSelf(t) == t.init /\ ~ShouldUnmarshal(t)
CanDriverUnmarshal(t) == ShouldUnmarshal(t) /\ ~t.dict
CanUnmarshalFromDict(t) == t.dict
WillPreinitialize(t) ==
    CanInitializeSelf(t) \/ CanDriverUnmarshal(t) \/ CanUnmarshalFromDict(t)

\* The dynamic type of a dictionary a plan receives is json.JSON when it is
\* the dictionary of the call (the root) or the enclosing dictionary of a
\* flattened field (Dict.AsValue), and map[string]any when it is an entry
\* of a dictionary as json.Unmarshal builds them.
TypedJSON(tg, at) == Len(at) = 1 \/ tg.flatten

\* The raw hooks as Unmarshal of the json driver calls them: UnmarshalJSON,
\* then UnmarshalText when it failed.
UnmarshalAsJSON(t, o, at) ==
    IF RawHook(t) \notin o.fail
    THEN [err |-> NoErr, val |-> Made(t, RawV),
          tr |-> << Ev("UnmarshalJSON", at, RawHook(t)) >>]
    ELSE IF TextHook(t) \notin o.fail
    THEN [err |-> NoErr, val |-> Made(t, TextV),
          tr |-> << Ev("UnmarshalJSON", at, RawHook(t)), Ev("Failed", at, RawHook(t)),
                    Ev("UnmarshalText", at, TextHook(t)) >>]
    ELSE [err |-> Plain(<<"failed to unmarshal '", "' either from JSON or from text: \n\t * ",
                          RawHook(t), "\n\t * and ", TextHook(t)>>),
          val |-> Zero(t),
          tr |-> << Ev("UnmarshalJSON", at, RawHook(t)), Ev("Failed", at, RawHook(t)),
                    Ev("UnmarshalText", at, TextHook(t)), Ev("Failed", at, TextHook(t)) >>]

\* The raw hook as Unmarshal of the kvlist driver calls it: UnmarshalText.
UnmarshalAsText(t, o, at) ==
    IF TextHook(t) \notin o.fail
    THEN [err |-> NoErr, val |-> Made(t, TextV),
          tr |-> << Ev("UnmarshalText", at, TextHook(t)) >>]
    ELSE [err |-> Plain(<< TextHook(t) >>), val |-> Zero(t),
          tr |-> << Ev("UnmarshalText", at, TextHook(t)), Ev("Failed", at, TextHook(t)) >>]

\* options.unmarshaler.Unmarshal(in, &ptr) for a pointer to a fresh t: the
\* error, the value behind the pointer, the hooks called.  typed tells
\* whether a dictionary has the dynamic type json.JSON.
Unmarshal(t, in, typed, o, at) ==
    CASE o.driver = "json" /\ (in.k = "str" \/ (in.k = "dict" /\ typed)) ->
           UnmarshalAsJSON(t, o, at)
      [] o.driver = "kvlist" /\ (in.k = "str" \/ (in.k = "list" /\ Len(in.items) = 1)) ->
           UnmarshalAsText(t, o, at)
      [] o.driver = "kvlist" /\ in.k = "list" /\ Len(in.items) # 1 ->
           [err |-> Plain(<<"cannot deserialize []string in this context">>),
            val |-> Zero(t), tr |-> <<>>]
      [] OTHER ->
           [err |-> Plain(<<"expected a string, got ", in.k>>), val |-> Zero(t), tr |-> <<>>]

\* (*T).UnmarshalDict of a modelled type.
UnmarshalDict(t, o, at) ==
    IF DictHook(t) \notin o.fail
    THEN [err |-> NoErr, val |-> Made(t, DictV),
          tr |-> << Ev("UnmarshalDict", at, DictHook(t)) >>]
    ELSE [err |-> Plain(<< DictHook(t) >>), val |-> Zero(t),
          tr |-> << Ev("UnmarshalDict", at, DictHook(t)), Ev("Failed", at, DictHook(t)) >>]

(***************************************************************************)
(* The plans (reflectDeserializer closures).  Every plan takes what its    *)
(* closure captured when the deserializer was built (the type t, the path, *)
(* the tags tg of the field, wasPreinitialized pre), the content of the    *)
(* slot it writes to, the input value, the oracle o and the position at.   *)
(***************************************************************************)
RECURSIVE FieldPlan(_, _, _, _, _, _, _, _)
RECURSIVE StructPlan(_, _, _, _, _, _, _, _)
RECURSIVE FieldsLoop(_, _, _, _, _, _, _, _, _, _)
RECURSIVE PointerPlan(_, _, _, _, _, _, _, _)
RECURSIVE SlicePlan(_, _, _, _, _, _, _, _)
RECURSIVE ElementsLoop(_, _, _, _, _, _, _, _, _)
RECURSIVE MapPlan(_, _, _, _, _, _, _, _)
RECURSIVE KeysLoop(_, _, _, _, _, _, _, _, _)

\* fmt's %v of the dynamic value of an input, as the messages show it: the
\* text of a string, the digits of a number, else the kind of the value.
Shown(in) ==
    CASE in.k = "str" -> in.v
      [] in.k \in {"num", "s"} -> ToString(in.v)
      [] OTHER -> in.k

\* The string input parses with the parser of the kind of t.
Parses(t, in) == HasParser(t) /\ in.k = "str" /\ ParseOk(in.v)

\* makeFlatFieldDeserializer, the type check and conversion of the chosen
\* input: nil, a value that converts, a string that parses, or an error.
FlatConvert(t, path, slot, input, tr) ==
    LET expected == IF t.name = "" THEN path ELSE TypeName(t)
        invalid(got) ==
            Plain(<<"invalid value at ">> \o path \o <<", expected ">> \o expected
                    \o <<", got ", got>>)
    IN IF input.k \in {"null", "empty"}
       THEN IF t.kind = "ptr"
            THEN R(NoErr, Nil, tr)
            ELSE R(invalid("<nil>"), slot, tr)
       ELSE IF CanConvert(input, t)
       THEN R(NoErr, ConvertTo(input, t), tr)
       ELSE IF Parses(t, input)
       THEN R(NoErr, S(Parse(input.v)), tr)
       ELSE R(invalid(Shown(input)), slot, tr)

\* makeFlatFieldDeserializer, the recovery by the unmarshaler of a type with
\* the raw hook, whose input neither converts nor parses: u is what
\* Unmarshal returned.
FlatUnmarshalled(t, path, slot, in, u) ==
    IF u.err.ok
    THEN R(NoErr, u.val, u.tr)
    ELSE R(Plain(<<"invalid value at ">> \o path \o <<", expected ">> \o TypeName(t)
                   \o <<", got ", Shown(in)>>),
           slot, u.tr)

\* A flat plan that never asks the unmarshaler of the driver.
RecoversNever(t, in) == FALSE

\* makeFlatFieldDeserializer, the last recovery of a present input: the
\* unmarshaler is asked when the type has the raw hook and the input neither
\* converts nor parses.
Recovers(t, in) ==
    /\ in.k \notin {"absent", "null", "empty"}
    /\ ShouldUnmarshal(t)
    /\ ~CanConvert(in, t)
    /\ ~Parses(t, in)

\* The closure returned by makeFlatFieldDeserializer.
FlatPlan(t, path, tg, pre, slot, in, o, at) ==
    CASE Recovers(t, in) ->
           FlatUnmarshalled(t, path, slot, in, Unmarshal(t, in, TypedJSON(tg, at), o, at))
      [] in.k # "absent" /\ ~Recovers(t, in) ->
           FlatConvert(t, path, slot, in, <<>>)
      [] in.k = "absent" /\ pre ->
           IF tg.exported
           THEN FlatConvert(t, path, slot, slot, <<>>)
           ELSE R(NoErr, slot, <<>>)
      [] in.k = "absent" /\ ~pre /\ tg.hasDefault ->
           FlatConvert(t, path, slot, S(Parse(tg.default)), <<>>)
      [] in.k = "absent" /\ ~pre /\ ~tg.hasDefault /\ tg.method # "" ->
           IF tg.method \in o.fail
           THEN R(ErrOrMethod(path, tg, "field"), slot,
                  << Ev("orMethod", at, tg.method), Ev("Failed", at, tg.method) >>)
           ELSE FlatConvert(t, path, slot, Constructed(t),
                            << Ev("orMethod", at, tg.method) >>)
      [] OTHER ->
           R(Plain(<<"missing value at ">> \o path \o <<", expected ">>
                     \o (IF t.name = "" THEN path ELSE TypeName(t))),
             slot, <<>>)

\* makePointerDeserializer, "Move into ptr": r is what the plan of the
\* pointed type returned.
PointerMoved(r, slot) ==
    IF r.err.ok THEN R(NoErr, PtrTo(r.slot), r.tr) ELSE R(r.err, slot, r.tr)

\* The closure returned by makePointerDeserializer.
PointerPlan(t, path, tg, pre, slot, in, o, at) ==
    IF in.k # "absent" \/ (~pre /\ ~IsDefault(tg, "nil") /\ tg.method = "")
    THEN PointerMoved(FieldPlan(t.elem, path \o <<"*">>, NoTags, pre \/ tg.initialized,
                                Zero(t.elem), in, o, at \o <<"*">>),
                      slot)
    ELSE CASE pre -> R(NoErr, slot, <<>>)
           [] IsDefault(tg, "nil") -> R(NoErr, slot, <<>>)
           [] OTHER ->
                IF tg.method \in o.fail
                THEN R(ErrOrMethod(path, tg, "ptr"), slot,
                       << Ev("orMethod", at, tg.method), Ev("Failed", at, tg.method) >>)
                ELSE R(NoErr, Constructed(t), << Ev("orMethod", at, tg.method) >>)

\* The index of the i-th entry as messages and positions show it.
IndexOf(i) == "[" \o ToString(i - 1) \o "]"

\* makeSliceDeserializer, one turn of the loop over the entries: r is what
\* the plan of the element type returned for entry i.
ElementsNext(t, path, childPre, input, items, i, o, at, tr, r) ==
    IF r.err.ok
    THEN ElementsLoop(t, path, childPre, input, [items EXCEPT ![i] = r.slot],
                      i + 1, o, at, tr \o r.tr)
    ELSE [err |-> Wrap(<<"error while deserializing ">> \o path \o << IndexOf(i) >>
                         \o <<":\n\t * ">>, r.err),
          items |-> items, tr |-> tr \o r.tr]

\* makeSliceDeserializer, the loop over the entries of the input: items are
\* the decoded elements so far.
ElementsLoop(t, path, childPre, input, items, i, o, at, tr) ==
    IF i > Len(input)
    THEN [err |-> NoErr, items |-> items, tr |-> tr]
    ELSE ElementsNext(t, path, childPre, input, items, i, o, at, tr,
                      FieldPlan(t.elem, path \o <<"[]">>, NoTags, childPre,
                                Zero(t.elem), input[i], o, at \o << IndexOf(i) >>))

\* makeSliceDeserializer, outPtr.Set(reflectedResult) unless an entry failed.
SliceFilled(l, slot) ==
    IF l.err.ok THEN R(NoErr, SeqV(l.items), l.tr) ELSE R(l.err, slot, l.tr)

\* makeSliceDeserializer, the switch on the kind: a slice of the length of
\* the input, or an array whose length the input must have.
SliceFill(t, path, childPre, slot, input, o, at) ==
    IF t.kind = "array" /\ t.len # Len(input)
    THEN R(Plain(<<"invalid array length at ">> \o path), slot, <<>>)
    ELSE SliceFilled(ElementsLoop(t, path, childPre, input,
                                  [i \in 1..Len(input) |-> Zero(t.elem)], 1, o, at, <<>>),
                     slot)

\* The closure returned by makeSliceDeserializer.  Without a value, the
\* input is empty for `default:"[]"` and for a pre-initialized field.
SlicePlan(t, path, tg, pre, slot, in, o, at) ==
    CASE in.k # "absent" /\ ~AsSliceOk(in) ->
           R(Plain(<<"error while deserializing ", "[]", ": expected an array">>),
             slot, <<>>)
      [] in.k = "absent" /\ ~IsDefault(tg, "[]") /\ tg.method # "" ->
           IF tg.method \in o.fail
           THEN R(Plain(<<"error in optional value at ">> \o path \o <<"\n\t * ">>
                          \o OrMethodError(tg)),
                  slot,
                  << Ev("orMethod", at, tg.method), Ev("Failed", at, tg.method) >>)
           ELSE IF t.kind = "array"
           THEN R(GoPanic(<<"reflect.MakeSlice of non-slice type">>), slot,
                  << Ev("orMethod", at, tg.method) >>)
           ELSE R(NoErr, SeqV(Constructed(t).items), << Ev("orMethod", at, tg.method) >>)
      [] in.k = "absent" /\ ~IsDefault(tg, "[]") /\ tg.method = "" /\ ~pre ->
           R(Plain(<<"missing value at ">> \o path \o <<"[]">>
                     \o <<", expected an array of ">> \o path),
             slot, <<>>)
      [] OTHER ->
           SliceFill(t, path, pre \/ tg.initialized, slot, AsSliceItems(in), o, at)

\* makeMapDeserializerFromReflect, one turn of the loop over the keys: r is
\* what the plan of the value type returned for key keys[i].
KeysNext(t, path, ents, keys, i, result, o, at, tr, r) ==
    IF r.err.ok
    THEN KeysLoop(t, path, ents, keys, i + 1, (keys[i] :> r.slot) @@ result, o, at,
                  tr \o r.tr)
    ELSE [err |-> r.err, ents |-> result, tr |-> tr \o r.tr]

\* makeMapDeserializerFromReflect, the loop over the keys of the input.  The
\* plan of the values is built with the willPreinitialize of the map type,
\* which is false.
KeysLoop(t, path, ents, keys, i, result, o, at, tr) ==
    IF i > Len(keys)
    THEN [err |-> NoErr, ents |-> result, tr |-> tr]
    ELSE KeysNext(t, path, ents, keys, i, result, o, at, tr,
                  FieldPlan(t.elem, path \o <<"[]">>, NoTags, FALSE,
                            Zero(t.elem), ents[keys[i]], o, at \o << keys[i] >>))

\* makeMapDeserializerFromReflect, outPtr.Set(result) unless a value failed.
MapFilled(l, slot) ==
    IF l.err.ok THEN R(NoErr, MapV(l.ents), l.tr) ELSE R(l.err, slot, l.tr)

\* The closure returned by makeMapDeserializerFromReflect.  Without a value,
\* the input is the empty dictionary for `default:"{}"` and for a
\* pre-initialized field.
MapPlan(t, path, tg, pre, slot, in, o, at) ==
    LET inValue == IF in.k = "absent" THEN EmptyValue ELSE in
        resolved == in.k # "absent" \/ IsDefault(tg, "{}") \/ pre
    IN CASE ~resolved /\ tg.method # "" ->
              IF tg.method \in o.fail
              THEN R(ErrOrMethod(path, tg, "map"), slot,
                     << Ev("orMethod", at, tg.method), Ev("Failed", at, tg.method) >>)
              ELSE R(NoErr, Constructed(t), << Ev("orMethod", at, tg.method) >>)
         [] ~resolved /\ tg.method = "" ->
              R(Plain(<<"missing object value at ">> \o path \o <<", expected ">>
                        \o TypeName(t)),
                slot, <<>>)
         [] resolved /\ ~AsDictOk(inValue) ->
              R(Plain(<<"invalid value at ">> \o path \o <<", expected an object of type ">>
                        \o TypeName(t) \o <<", got ", inValue.k>>),
                slot, <<>>)
         [] OTHER ->
              MapFilled(KeysLoop(t, path, AsDictEntries(inValue),
                                 KeysOf(AsDictEntries(inValue), o), 1,
                                 [x \in {} |-> Nil], o, at, <<>>),
                        slot)

\* The tags of a declared field as its plan captures them, with what
\* reflect knows of the field.
TagsOf(fd) == [fd.tags EXCEPT !.exported = fd.exported]

\* A field deserializer that moves into the entry of the public name of the
\* field whether the field is flattened or not.
FieldValueNested(fd, inValue) ==
    IF fd.public # "-" /\ fd.exported
    THEN Lookup(AsDictEntries(inValue), fd.public)
    ELSE Absent

\* makeStructDeserializerFromReflect, the value a field deserializer hands
\* to the plan of the field: the enclosing dictionary for a flattened field,
\* the entry of the public name of the field, nil when there is none.
FieldValue(fd, inValue) ==
    IF fd.tags.flatten
    THEN DictAsValue(inValue)
    ELSE IF fd.public # "-" /\ fd.exported
    THEN Lookup(AsDictEntries(inValue), fd.public)
    ELSE Absent

\* makeStructDeserializerFromReflect, one turn of the loop over the field
\* deserializers: r is what the plan of field fd returned.
FieldsNext(t, path, pre, inst, inValue, order, i, o, at, tr, fd, r) ==
    IF r.err.ok
    THEN FieldsLoop(t, path, pre, [inst EXCEPT !.f[fd.name] = r.slot], inValue, order,
                    i + 1, o, at,
                    tr \o << Ev("field", at \o <<"." \o fd.public>>, t.name) >> \o r.tr)
    ELSE [err |-> r.err, inst |-> [inst EXCEPT !.f[fd.name] = r.slot],
          tr |-> tr \o << Ev("field", at \o <<"." \o fd.public>>, t.name) >> \o r.tr]

\* makeStructDeserializerFromReflect, the loop over the field deserializers:
\* order is the order in which `range deserializers` visits them, inst the
\* staging instance.
FieldsLoop(t, path, pre, inst, inValue, order, i, o, at, tr) ==
    IF i > Len(order)
    THEN [err |-> NoErr, inst |-> inst, tr |-> tr]
    ELSE LET fd == t.fields[order[i]]
         IN FieldsNext(t, path, pre, inst, inValue, order, i, o, at, tr, fd,
                       FieldPlan(fd.typ, path \o <<"." \o fd.public>>, TagsOf(fd),
                                 WillPreinitialize(t) \/ pre \/ fd.tags.initialized,
                                 inst.f[fd.name], FieldValue(fd, inValue), o,
                                 at \o <<"." \o fd.public>>))

\* makeStructDeserializerFromReflect, reflect.New(typ) and Initialize on it:
\* the events, and the staging instance.
Allocated(t, at) ==
    << Ev("alloc", at, t.name) >>
      \o IF CanInitializeSelf(t)
         THEN << Ev("Initialize", at, InitHook(t)), Ev("wasPreInitialized", at, t.name) >>
         ELSE <<>>
Staging(t) == IF CanInitializeSelf(t) THEN InitializeOf(t) ELSE Zero(t)

\* makeStructDeserializerFromReflect, the deferred function: r is what the
\* body returns, inst the staging instance.  Validate runs unless an error
\* is returned; on success the slot is set to the staging instance.
Deferred(t, path, at, r, inst) ==
    IF ~r.err.ok \/ ~t.hasVal
    THEN r
    ELSE IF Rejects(t, inst)
    THEN R(WrapError(path, ValidateError(t)), r.slot,
           r.tr \o << Ev("Validate", at, t.name), Ev("Rejected", at, t.name) >>)
    ELSE R(NoErr, inst, r.tr \o << Ev("Validate", at, t.name), Ev("Set", at, t.name) >>)

\* makeStructDeserializerFromReflect, after the loop over the fields: l is
\* what the loop returned.  outPtr.Set(result), then the deferred function.
StructDecoded(t, path, at, slot, l) ==
    IF l.err.ok
    THEN Deferred(t, path, at,
                  R(NoErr, l.inst, l.tr \o << Ev("Set", at, t.name) >>), l.inst)
    ELSE R(l.err, slot, l.tr)

\* makeStructDeserializerFromReflect, the cases of the switch that hand the
\* input to a hook instead of the plans of the fields: u is what the hook
\* returned, tr the events before it.
HookDecoded(t, path, tr, u) ==
    IF u.err.ok
    THEN [err |-> NoErr, inst |-> u.val, tr |-> tr \o u.tr]
    ELSE [err |-> Wrap(<<"at ">> \o path \o <<", expected to be able to parse a ">>
                         \o TypeName(t) \o <<":\n\t * ">>, u.err),
          inst |-> u.val, tr |-> tr \o u.tr]

\* The closure returned by makeStructDeserializerFromReflect.  The captured
\* wasPreInitialized is set once Initialize has run.  Without a value, the
\* input is the empty value for `default:"{}"` and for a pre-initialized
\* record.
StructPlan(t, path, tg, pre, slot, in, o, at) ==
    LET wasPreInitialized == pre \/ CanInitializeSelf(t)
        inValue == IF in.k = "absent" THEN EmptyValue ELSE in
        resolved == in.k # "absent" \/ IsDefault(tg, "{}") \/ wasPreInitialized
        initFailed == CanInitializeSelf(t) /\ InitHook(t) \in o.fail
    IN CASE initFailed ->
              R(ErrInitializer(path, t, "struct"), slot,
                Allocated(t, at) \o << Ev("Failed", at, InitHook(t)) >>)
         [] ~initFailed /\ ~resolved /\ tg.method # "" ->
              IF tg.method \in o.fail
              THEN R(ErrOrMethod(path, tg, "struct"), slot,
                     Allocated(t, at) \o << Ev("orMethod", at, tg.method),
                                           Ev("Failed", at, tg.method) >>)
              ELSE Deferred(t, path, at,
                            R(NoErr, Constructed(t),
                              Allocated(t, at) \o << Ev("orMethod", at, tg.method),
                                                    Ev("Set", at, t.name) >>),
                            Staging(t))
         [] ~initFailed /\ ~resolved /\ tg.method = "" ->
              R(Plain(<<"missing object value at ">> \o path \o <<", expected ">>
                        \o TypeName(t)),
                slot, Allocated(t, at))
         [] ~initFailed /\ resolved /\ CanDriverUnmarshal(t) ->
              StructDecoded(t, path, at, slot,
                            HookDecoded(t, path, Allocated(t, at),
                                        Unmarshal(t, inValue, TypedJSON(tg, at), o, at)))
         [] ~initFailed /\ resolved /\ ~CanDriverUnmarshal(t) /\ ~AsDictOk(inValue) ->
              R(Plain(<<"invalid value at ">> \o path \o <<", expected an object of type ">>
                        \o TypeName(t) \o <<", got ">> \o TypeName(t)),
                slot, Allocated(t, at))
         [] ~initFailed /\ resolved /\ ~CanDriverUnmarshal(t) /\ AsDictOk(inValue)
              /\ CanUnmarshalFromDict(t) ->
              StructDecoded(t, path, at, slot,
                            HookDecoded(t, path, Allocated(t, at), UnmarshalDict(t, o, at)))
         [] OTHER ->
              StructDecoded(t, path, at, slot,
                            FieldsLoop(t, path, pre, Staging(t), inValue,
                                       Order(Len(t.fields), o), 1, o, at,
                                       Allocated(t, at)))

\* makeFlatFieldDeserializer returns no error for this type and these tags:
\* a `default` tag needs a parser for the kind and a literal that parses.
FlatCompiles(t, tg) == tg.hasDefault => (HasParser(t) /\ ParseOk(tg.default))

\* makeFieldDeserializerFromReflect, the combined closure after its call of
\* the structured plan: the event that records how that plan returned.
StructuredDone(at, structured) ==
    Ev("structured", at,
       CASE structured.err.ok -> "ok"
         [] "validation" \in structured.err.as -> "validation"
         [] OTHER -> "error")

\* makeFieldDeserializerFromReflect, the end of the combined closure: the
\* flat plan has run after the structured plan failed.
CombinedFlat(at, structured, flat) ==
    LET tr == structured.tr
                \o << StructuredDone(at, structured),
                      Ev("flat", at, IF flat.err.ok THEN "ok" ELSE "error") >>
                \o flat.tr
    IN IF flat.err.ok
       THEN R(NoErr, flat.slot, tr)
       ELSE R(structured.err, flat.slot, tr)

\* A combined closure that goes on to the flat plan after any error of the
\* structured plan, a validation error included.
CombinedRetrying(t, path, tg, pre, in, o, at, structured) ==
    IF ~FlatCompiles(t, tg) \/ structured.err.panic
    THEN structured
    ELSE IF structured.err.ok
    THEN R(structured.err, structured.slot,
           structured.tr \o << StructuredDone(at, structured) >>)
    ELSE CombinedFlat(at, structured,
                      FlatPlan(t, path, tg, pre, structured.slot, in, o, at))

\* makeFieldDeserializerFromReflect, the structured plan alone when there is
\* no flat plan, else the combined closure: the result of the structured
\* plan when it succeeds or fails validation, else the flat plan is tried.
\* A panic of the structured plan unwinds the closure.
Combined(t, path, tg, pre, in, o, at, structured) ==
    IF ~FlatCompiles(t, tg) \/ structured.err.panic
    THEN structured
    ELSE IF structured.err.ok \/ "validation" \in structured.err.as
    THEN R(structured.err, structured.slot,
           structured.tr \o << StructuredDone(at, structured) >>)
    ELSE CombinedFlat(at, structured,
                      FlatPlan(t, path, tg, pre, structured.slot, in, o, at))

\* outPtr.Set(...) at the end of the closures of a slice, array, record or
\* map: reflect panics when the slot was obtained from an unexported field.
\* r is what the closure returns when the slot can be set.
SetSlot(tg, slot, r) ==
    IF r.err.ok /\ ~tg.exported
    THEN R(GoPanic(<<"reflect.Value.Set using value obtained using unexported field">>),
           slot, r.tr)
    ELSE r

\* The closure returned by makeFieldDeserializerFromReflect.
FieldPlan(t, path, tg, pre, slot, in, o, at) ==
    IF t.kind = "scalar"
    THEN FlatPlan(t, path, tg, pre, slot, in, o, at)
    ELSE Combined(t, path, tg, pre, in, o, at,
                  CASE t.kind = "ptr" -> PointerPlan(t, path, tg, pre, slot, in, o, at)
                    [] t.kind \in {"slice", "array"} ->
                         SetSlot(tg, slot, SlicePlan(t, path, tg, pre, slot, in, o, at))
                    [] t.kind = "record" ->
                         SetSlot(tg, slot, StructPlan(t, path, tg, pre, slot, in, o, at))
                    [] OTHER ->
                         SetSlot(tg, slot, MapPlan(t, path, tg, pre, slot, in, o, at)))

(***************************************************************************)
(* Building a deserializer.                                                *)
(***************************************************************************)
\* tags.Parse returns an error: a key of the struct tag is written twice.
ParseError(fd) ==
    \E i, j \in DOMAIN fd.keys : i # j /\ fd.keys[i] = fd.keys[j]

\* container.MethodByName(name) on the methods the modelled Root declares:
\* whether the method exists, how many arguments it takes, how many values
\* it returns, whether the first converts to the type of the field and
\* whether the second converts to error.
MethodByName(name) ==
    CASE name = "MakeF" ->
           [valid |-> TRUE, numIn |-> 0, numOut |-> 2, out0 |-> TRUE, out1 |-> TRUE]
      [] name = "BadArgs" ->
           [valid |-> TRUE, numIn |-> 1, numOut |-> 2, out0 |-> TRUE, out1 |-> TRUE]
      [] name = "BadOut1" ->
           [valid |-> TRUE, numIn |-> 0, numOut |-> 2, out0 |-> FALSE, out1 |-> TRUE]
      [] name = "BadOut2" ->
           [valid |-> TRUE, numIn |-> 0, numOut |-> 2, out0 |-> TRUE, out1 |-> FALSE]
      [] name = "BadOut3" ->
           [valid |-> TRUE, numIn |-> 0, numOut |-> 3, out0 |-> TRUE, out1 |-> TRUE]
      [] OTHER ->
           [valid |-> FALSE, numIn |-> 0, numOut |-> 0, out0 |-> FALSE, out1 |-> FALSE]

\* makeOrMethodConstructor returns an error for these tags.
OrMethodSetupError(tg) ==
    /\ tg.method # ""
    /\ LET m == MethodByName(tg.method)
       IN \/ ~m.valid
          \/ m.numIn # 0
          \/ m.numOut # 2
          \/ ~m.out0
          \/ ~m.out1

\* canInterface returns an error for a hook of type t: the type itself, not
\* its pointer type, implements the interface.  Only the record types of
\* the family declare methods.
CanInterfaceError(t) == t.kind = "record" /\ t.onValue

\* A construction that skips the checks of the declaration of the fields.
CompileErrorUnchecked(t, tg, pre) == FALSE

RECURSIVE CompileError(_, _, _)
\* makeFieldDeserializerFromReflect and the make* functions it calls return
\* an error for type t under tags tg with wasPreinitialized pre.  The error
\* of the flat plan of a type that has a structured plan is dropped.
CompileError(t, tg, pre) ==
    CASE t.kind = "scalar" -> ~FlatCompiles(t, tg) \/ OrMethodSetupError(tg)
      [] t.kind = "ptr" ->
           \/ CompileError(t.elem, NoTags, pre \/ tg.initialized)
           \/ tg.hasDefault /\ tg.default # "nil"
           \/ OrMethodSetupError(tg)
      [] t.kind \in {"slice", "array"} ->
           \/ tg.hasDefault /\ tg.default # "[]"
           \/ OrMethodSetupError(tg)
           \/ CompileError(t.elem, NoTags, pre \/ tg.initialized)
      [] t.kind = "map" ->
           \/ t.key # "string"
           \/ CompileError(t.elem, NoTags, FALSE)
           \/ tg.hasDefault /\ tg.default # "{}"
           \/ OrMethodSetupError(tg)
      [] OTHER ->
           \/ CanInterfaceError(t)
           \/ \E i \in DOMAIN t.fields :
                 LET fd == t.fields[i]
                     willPreinitialize == WillPreinitialize(t) \/ pre \/ fd.tags.initialized
                 IN \/ ParseError(fd)
                    \/ fd.tags.hasDefault /\ fd.tags.method # ""
                    \/ ~(fd.public # "-" /\ fd.exported) /\ ~willPreinitialize
                    \/ CompileError(fd.typ, TagsOf(fd), willPreinitialize)
           \/ tg.hasDefault /\ tg.default # "{}"
           \/ OrMethodSetupError(tg)

(***************************************************************************)
(* The driver of (key, value list) inputs (kvlist.driver).  While a        *)
(* deserializer is built, the driver is told of every type the build       *)
(* enters and leaves and keeps where it is: in the root struct, in a slice *)
(* or array field of it, in a leaf.  A type is remembered by its name      *)
(* ("" when nothing is remembered).                                        *)
(***************************************************************************)
RECURSIVE TypeString(_)
\* reflect.Type.String(), which identifies a type of the family.
TypeString(t) ==
    CASE t.name # "" -> t.name
      [] t.kind = "ptr" -> "*" \o TypeString(t.elem)
      [] t.kind = "slice" -> "[]" \o TypeString(t.elem)
      [] t.kind = "array" -> "[n]" \o TypeString(t.elem)
      [] OTHER -> "map[" \o t.key \o "]" \o TypeString(t.elem)

\* kvlist.Driver(): a fresh driver; failed is set once Enter has returned
\* an error.
KVDriver == [enteredStructAt |-> "", enteredSliceAt |-> "", enteredLeafAt |-> "",
             failed |-> FALSE]

\* canBeALeaf: the primitive kinds, and the types that implement
\* TextUnmarshaler, which the types with the raw hook do.
CanBeALeaf(t) == t.kind = "scalar" \/ (t.kind = "record" /\ t.raw)

\* (*driver).Enter.
Enter(u, t) ==
    CASE u.failed \/ t.kind = "ptr" -> u
      [] u.enteredStructAt = "" ->
           IF t.kind # "record"
           THEN [u EXCEPT !.failed = TRUE]
           ELSE [u EXCEPT !.enteredStructAt = TypeString(t)]
      [] u.enteredSliceAt = "" /\ u.enteredLeafAt = "" ->
           CASE CanBeALeaf(t) -> [u EXCEPT !.enteredLeafAt = TypeString(t)]
             [] t.kind \in {"slice", "array"} -> [u EXCEPT !.enteredSliceAt = TypeString(t)]
             [] OTHER -> [u EXCEPT !.failed = TRUE]
      [] u.enteredLeafAt = "" /\ u.enteredSliceAt # "" ->
           IF CanBeALeaf(t)
           THEN [u EXCEPT !.enteredSliceAt = TypeString(t)]
           ELSE [u EXCEPT !.failed = TRUE]
      [] OTHER -> u

\* (*driver).Exit, which the deferred functions of the build call whether
\* or not the build has failed.
Exit(u, t) ==
    CASE t.kind = "ptr" -> u
      [] u.enteredLeafAt = TypeString(t) -> [u EXCEPT !.enteredLeafAt = ""]
      [] u.enteredSliceAt = TypeString(t) -> [u EXCEPT !.enteredSliceAt = ""]
      [] u.enteredStructAt = TypeString(t) -> [u EXCEPT !.enteredStructAt = ""]
      [] OTHER -> u

RECURSIVE EnterField(_, _, _)
RECURSIVE EnterFields(_, _, _)

\* makeFlatFieldDeserializer as the driver sees it: Enter, and Exit when it
\* is left.  The error of the flat plan of a type that has a structured
\* plan is dropped, and the driver is as it was.
EnterFlat(u, t) ==
    IF Enter(u, t).failed
    THEN IF t.kind = "scalar" THEN Enter(u, t) ELSE u
    ELSE Exit(Enter(u, t), t)

\* makeMapDeserializerFromReflect as the driver sees it: u is the driver
\* after its Enter.
EnterMap(u, t) == IF u.failed THEN u ELSE Exit(EnterField(u, t.elem, FALSE), t)

\* The structured plan of makeFieldDeserializerFromReflect as the driver
\* sees it: pointers are ignored, makeSliceDeserializer enters nothing
\* itself.
EnterStructured(u, t) ==
    CASE u.failed \/ t.kind = "scalar" -> u
      [] t.kind \in {"ptr", "slice", "array"} -> EnterField(u, t.elem, FALSE)
      [] t.kind = "record" -> EnterFields(u, t, 1)
      [] OTHER -> EnterMap(Enter(u, t), t)

\* The flat plan after the structured one, unless the structured one has
\* failed, then the deferred Exit of makeFieldDeserializerFromReflect, which
\* a flattened field skips.
LeaveField(u, t, wasFlattened) ==
    IF wasFlattened
    THEN IF u.failed THEN u ELSE EnterFlat(u, t)
    ELSE Exit(IF u.failed THEN u ELSE EnterFlat(u, t), t)

\* makeFieldDeserializerFromReflect as the driver sees it: nothing is
\* deferred when its own Enter fails.
EnterField(u, t, wasFlattened) ==
    IF ~wasFlattened /\ Enter(u, t).failed
    THEN Enter(u, t)
    ELSE LeaveField(EnterStructured(IF wasFlattened THEN u ELSE Enter(u, t), t), t,
                    wasFlattened)

\* The loop over the fields of makeStructDeserializerFromReflect as the
\* driver sees it, from field i on.
EnterFields(u, t, i) ==
    IF u.failed \/ i > Len(t.fields)
    THEN u
    ELSE EnterFields(EnterField(u, t.fields[i].typ, t.fields[i].tags.flatten), t, i + 1)

\* makeOuterStructDeserializerFromReflect as the driver u of the build sees
\* it: the driver when the build returns.
EnterOuter(u, t) ==
    IF Enter(u, t).failed
    THEN Enter(u, t)
    ELSE Exit(EnterFields(Enter(u, t), t, 1), t)

\* A driver kept from one build to the next.
KeptDriver(old) == old

\* options.Unmarshaler() in MakeKVListDeserializer: every build makes its
\* driver with kvlist.Driver(), whatever driver an earlier build left.
NewDriver(old) == KVDriver

\* A construction that never asks the driver.
KVCompilesUnasked(u, cfg) ==
    ~CompileError(RootT(cfg), NoTags, CanInitializeSelf(RootT(cfg)))

\* MakeKVListDeserializer[Root] with the driver u returns a deserializer.
KVCompiles(u, cfg) ==
    /\ ~CompileError(RootT(cfg), NoTags, CanInitializeSelf(RootT(cfg)))
    /\ ~EnterOuter(u, RootT(cfg)).failed

\* MakeMapDeserializer[Root] returns a deserializer.
Compiles(cfg) == ~CompileError(RootT(cfg), NoTags, CanInitializeSelf(RootT(cfg)))

(***************************************************************************)
(* The calls of a deserializer.                                            *)
(***************************************************************************)
\* mapDeserializer.DeserializeDict: the *T returned is nil when the closure
\* returned an error.
\* mapDeserializer.DeserializeDict with the closures of
\* makeOuterStructDeserializer and makeOuterStructDeserializerFromReflect:
\* ret is the *T returned (Nil for a nil pointer).
Returned(initialized, r) ==
    [err |-> r.err, ret |-> IF r.err.ok THEN PtrTo(r.slot) ELSE Nil,
     tr |-> initialized \o r.tr]

DeserializeDict(cfg, dict, o) ==
    LET t == RootT(cfg)
        path == TypeName(t)
        initialized ==
            IF CanInitializeSelf(t)
            THEN << Ev("Initialize", <<"out">>, InitHook(t)) >>
            ELSE <<>>
    IN IF CanInitializeSelf(t) /\ InitHook(t) \in o.fail
       THEN [err |-> ErrInitializer(path, t, "outer"), ret |-> Nil,
             tr |-> initialized \o << Ev("Failed", <<"out">>, InitHook(t)) >>]
       ELSE Returned(initialized,
                     StructPlan(t, path, NoTags, CanInitializeSelf(t), Staging(t), dict, o,
                                <<"Root">>))

\* mapReflectDeserializer.DeserializeDictTo on the plan built by
\* MakeMapDeserializerFromReflect with an empty RootPath: slot is the
\* content of the caller's reflect.Value.
DeserializeDictTo(cfg, dict, slot, o) ==
    FieldPlan(RootT(cfg), <<>>, NoTags, FALSE, slot, DictAsValue(dict), o, <<"Root">>)

RECURSIVE DeListMapReflect(_, _, _, _)

\* A KVList (map[string][]string) is a dictionary of lists of strings;
\* inMap[key] is nil when there is no such key.
Strings(inMap, key) == IF key \in DOMAIN inMap THEN inMap[key].items ELSE <<>>

\* deListMapReflect, after the call for the type of a flattened or anonymous
\* struct field: r is what that call returned.
DeListFlattened(t, inMap, i, r) ==
    IF r.err.ok THEN DeListMapReflect(t, r.out, inMap, i + 1) ELSE r

\* deListMapReflect, what one field that is not a flattened struct adds to
\* outMap: the list for a slice or array, the single string for any other
\* field when there is exactly one.
DeListEntry(fd, outMap, values) ==
    CASE fd.typ.kind \in {"slice", "array"} -> (fd.public :> List(values)) @@ outMap
      [] fd.typ.kind \notin {"slice", "array"} /\ Len(values) = 1 ->
           (fd.public :> values[1]) @@ outMap
      [] OTHER -> outMap

\* deListMapReflect from field i of type t on.
DeListMapReflect(t, outMap, inMap, i) ==
    IF i > Len(t.fields)
    THEN [err |-> NoErr, out |-> outMap]
    ELSE LET fd == t.fields[i]
         IN IF fd.typ.kind = "record" /\ fd.tags.flatten
            THEN DeListFlattened(t, inMap, i, DeListMapReflect(fd.typ, outMap, inMap, 1))
            ELSE IF fd.typ.kind \notin {"slice", "array"}
                    /\ Len(Strings(inMap, fd.public)) > 1
            THEN [err |-> Plain(<<"cannot fit ", ToString(Len(Strings(inMap, fd.public))),
                                  " elements into a single entry of field ",
                                  t.name, ".", fd.name>>),
                  out |-> outMap]
            ELSE DeListMapReflect(t, DeListEntry(fd, outMap, Strings(inMap, fd.public)),
                                  inMap, i + 1)

\* The closure of MakeKVListDeserializer after deListMap: n is what it
\* returned.  The wrapped deserializer is the one of DeserializeDict, on
\* kvlist.MakeRootDict(normalized).
KVNormalized(cfg, o, n) ==
    IF n.err.ok
    THEN DeserializeDict(cfg, Dict(n.out), o)
    ELSE [err |-> Wrap(<<"error attempting to deserialize from a list of entries:\n\t * ">>,
                       n.err),
          ret |-> Nil, tr |-> <<>>]

\* kvListDeserializer.DeserializeKVList.
DeserializeKVList(cfg, value, o) ==
    KVNormalized(cfg, o, DeListMapReflect(RootT(cfg), NoEntries, value.ents, 1))

RECURSIVE DeserializeListFrom(_, _, _, _, _, _)

\* mapDeserializer.DeserializeList, the body of the loop for an entry that is
\* a dictionary: r is what me.deserializer returned for a new(T).
DeserializeListEntry(cfg, list, i, result, tr, o, r) ==
    CASE r.err.panic -> [err |-> r.err, ret |-> Nil, tr |-> tr \o r.tr]
      [] ~r.err.panic /\ ~r.err.ok ->
           [err |-> Wrap(<<"failed to deserialize entry ", ToString(i - 1), ": \n\t * ">>,
                         r.err),
            ret |-> SeqV(<<>>), tr |-> tr \o r.tr]
      [] OTHER ->
           DeserializeListFrom(cfg, list, i + 1, Append(result, r.ret.to), tr \o r.tr, o)

\* mapDeserializer.DeserializeList from entry i on, the i-th of the list
\* being the entry of index i - 1: an entry for which AsDict is not ok has
\* no branch and the loop goes on.
DeserializeListFrom(cfg, list, i, result, tr, o) ==
    IF i > Len(list)
    THEN [err |-> NoErr, ret |-> SeqV(result), tr |-> tr]
    ELSE IF list[i].k = "dict"
    THEN DeserializeListEntry(cfg, list, i, result, tr, o,
                              DeserializeDict(cfg, list[i], o))
    ELSE DeserializeListFrom(cfg, list, i + 1, result, tr, o)

\* mapDeserializer.DeserializeList.
DeserializeList(cfg, list, o) == DeserializeListFrom(cfg, list.items, 1, <<>>, <<>>, o)

(***************************************************************************)
(* The inputs and oracles the calls are made with.                         *)
(***************************************************************************)
\* Input values for a scalar and for an Inner record.
ScalarInputs == {Num(1), Num(2)}

\* Strings where a scalar is expected: one that parses as an int and one
\* that does not.
TextInputs == {Str("1"), Str("blue")}

\* The configurations whose scalar F is also given strings.
TakesText(cfg) == cfg.kind = "scalar" /\ cfg.var \in {"plain"} \cup ScalarHookVariants
InnerInputs ==
    { Dict(x @@ g) :
        x \in {NoEntries} \cup {"X" :> v : v \in ScalarInputs},
        g \in {NoEntries, "G" :> Dict("Z" :> Num(1))} }

\* Input values for the elements of a slice, array or map.
ElementInputs(cfg) ==
    CASE cfg.elem = "scalar" -> ScalarInputs
      [] cfg.elem = "slice" -> {List(<<>>), List(<< Num(1) >>)}
      [] cfg.elem = "record" /\ cfg.var \in ElemHookVariants ->
           {Dict("X" :> Num(2)), Str("1")}
      [] OTHER -> {Dict(NoEntries), Dict("X" :> Num(2))}

\* The sequences of at most MaxItems element inputs.
ListsOf(elems) == UNION { [1..n -> elems] : n \in 0..MaxItems }

\* The present input values of field F.
PresentInputs(cfg) ==
    CASE cfg.kind = "scalar" ->
           ScalarInputs \cup (IF TakesText(cfg) THEN TextInputs ELSE {})
      [] cfg.kind = "record" ->
           IF cfg.var \in HookVariants
           THEN {Dict(NoEntries), Dict("X" :> Num(1)), Str("1")}
           ELSE InnerInputs
      [] cfg.kind = "ptr" -> IF cfg.elem = "scalar" THEN ScalarInputs ELSE InnerInputs
      [] cfg.kind \in {"slice", "array"} ->
           { List(l) : l \in ListsOf(ElementInputs(cfg)) }
      [] OTHER ->
           { Dict([i \in {KeyName(j) : j \in 1..Len(l)} |->
                     l[CHOOSE j \in 1..Len(l) : KeyName(j) = i]]) :
               l \in ListsOf(ElementInputs(cfg)) }

\* The input dictionaries of a call on a type whose F is flattened: the
\* entries of the children of Inner and of Leaf are absent or present next
\* to "a", and a dictionary under "f" is absent or present.
FlattenedInputDicts ==
    { Dict(a @@ f @@ x @@ g @@ z) :
        a \in {NoEntries, "a" :> Num(1)},
        f \in {NoEntries, "f" :> Dict("X" :> Num(2))},
        x \in {NoEntries} \cup {"X" :> v : v \in ScalarInputs},
        g \in {NoEntries, "G" :> Dict("Z" :> Num(2))},
        z \in {NoEntries, "Z" :> Num(2)} }

\* The JSON null, which is how a nil pointer, slice or map is written.
NullInputs(cfg) == IF cfg.kind \in {"ptr", "slice", "map"} THEN {Null} ELSE {}

\* The input dictionaries of a call: entry "a" is absent, accepted or
\* rejected by Root.Validate; entry "f" is absent or present.
InputDicts(cfg) ==
    IF cfg.var \in FlattenVariants \cup PrivateFlattenVariants
    THEN FlattenedInputDicts
    ELSE { Dict(a @@ f) :
             a \in {NoEntries} \cup {"a" :> v : v \in ScalarInputs},
             f \in {NoEntries}
                     \cup {"f" :> v : v \in PresentInputs(cfg) \cup NullInputs(cfg)} }

RECURSIVE Encode(_, _)
\* json.Marshal of a value v of type t followed by json.Unmarshal into a
\* dictionary: a nil pointer, slice or map is written null, a pointer as
\* what it points to, a record as the dictionary of its exported fields
\* under their public names.
Encode(t, v) ==
    CASE v.k = "nil" -> Null
      [] v.k = "s" -> Num(v.v)
      [] v.k = "ptr" -> Encode(t.elem, v.to)
      [] v.k = "seq" -> List([i \in DOMAIN v.items |-> Encode(t.elem, v.items[i])])
      [] v.k = "map" -> Dict([key \in DOMAIN v.ents |-> Encode(t.elem, v.ents[key])])
      [] OTHER ->
           Dict([p \in {t.fields[i].public :
                          i \in {j \in DOMAIN t.fields :
                                    t.fields[j].exported /\ t.fields[j].public # "-"}} |->
                   LET fd == t.fields[CHOOSE i \in DOMAIN t.fields : t.fields[i].public = p]
                   IN Encode(fd.typ, v.f[fd.name])])

RECURSIVE ValuesOf(_)
\* The values of a type built from the scalars 1 and 2, with at most
\* MaxItems elements or keys: a pointer, a slice and a map may be nil.
ValuesOf(t) ==
    CASE t.kind = "scalar" -> {S(1), S(2)}
      [] t.kind = "ptr" -> {Nil} \cup {PtrTo(x) : x \in ValuesOf(t.elem)}
      [] t.kind = "slice" ->
           {Nil} \cup {SeqV(l) : l \in UNION {[1..n -> ValuesOf(t.elem)] : n \in 0..MaxItems}}
      [] t.kind = "array" -> {SeqV(l) : l \in [1..t.len -> ValuesOf(t.elem)]}
      [] t.kind = "map" ->
           {Nil} \cup {MapV(m) : m \in UNION {[{KeyName(j) : j \in 1..n} -> ValuesOf(t.elem)] :
                                               n \in 0..MaxItems}}
      [] OTHER ->
           {RecV(f) : f \in {g \in [FieldNames(t) -> UNION {ValuesOf(t.fields[i].typ) :
                                                              i \in DOMAIN t.fields}] :
                               \A i \in DOMAIN t.fields :
                                   g[t.fields[i].name] \in ValuesOf(t.fields[i].typ)} }

\* The value lists of a KVList: at most MaxItems strings.
StringLists == { List(l) : l \in ListsOf({Str("1"), Str("2")}) }

\* The KVLists of a call: for a type with flattened fields the keys of the
\* children next to "a" and "f", else "a" and "f".
KVLists(cfg) ==
    IF cfg.var \in FlattenVariants \cup PrivateFlattenVariants
    THEN { Dict(a @@ f @@ x @@ z) :
             a \in {NoEntries, "a" :> List(<< Str("1") >>)},
             f \in {NoEntries, "f" :> List(<< Str("2") >>)},
             x \in {NoEntries} \cup {"X" :> l : l \in StringLists},
             z \in {NoEntries, "Z" :> List(<< Str("2") >>)} }
    ELSE { Dict(a @@ f) :
             a \in {NoEntries} \cup {"a" :> List(<< v >>) : v \in {Str("1"), Str("2")}},
             f \in {NoEntries} \cup {"f" :> l : l \in StringLists}
                     \cup (IF TakesText(cfg)
                           THEN {"f" :> List(<< Str("blue") >>)}
                           ELSE {}) }

\* The values of entry "f" in the lists given to DeserializeList: a number,
\* a list of one element, a dictionary with the one key "X" or "k1".
FirstInputs(cfg) ==
    {v \in PresentInputs(cfg) :
        \/ v.k = "num"
        \/ v.k = "list" /\ Len(v.items) = 1
        \/ v.k = "dict" /\ DOMAIN v.ents \in {{"X"}, {"k1"}}}

\* The entries of those lists: dictionaries with A = 1 and F absent or
\* present, the empty dictionary, and a value that is not a dictionary.
ListEntries(cfg) ==
    {d \in InputDicts(cfg) :
        /\ DOMAIN d.ents \in {{"a"}, {"a", "f"}}
        /\ d.ents["a"] = Num(1)
        /\ "f" \in DOMAIN d.ents => d.ents["f"] \in FirstInputs(cfg)}
      \cup {Dict(NoEntries), Num(1)}

\* The lists of at most MaxItems entries.
InputLists(cfg) == {List(l) : l \in ListsOf(ListEntries(cfg))}

\* The user hooks that exist for a configuration.
Hooks(cfg) ==
    (IF RootT(cfg).init THEN {"Root.Initialize"} ELSE {})
      \cup (IF InnerT(cfg).init THEN {"Inner.Initialize"} ELSE {})
      \cup UNION { (IF t.raw THEN {RawHook(t), TextHook(t)} ELSE {})
                     \cup (IF t.dict THEN {DictHook(t)} ELSE {}) :
                   t \in {RootT(cfg), InnerT(cfg)} }
      \cup (IF cfg.var \in ScalarHookVariants
            THEN {RawHook(LevelT), TextHook(LevelT)}
            ELSE {})
      \cup (IF cfg.fb = "orMethod" THEN {"MakeF"} ELSE {})

\* The oracles of a call: which hook, if any, returns an error (or both
\* raw hooks of a type), and the iteration order of Go maps; with them goes
\* the driver of the options the deserializer was built with.
Oracles(cfg, drv) ==
    [fail : {{}} \cup {{h} : h \in Hooks(cfg)}
              \cup { {RawHook(t), TextHook(t)} : t \in {u \in {RootT(cfg), InnerT(cfg)} : u.raw} }
              \cup (IF cfg.var \in ScalarHookVariants
                    THEN {{RawHook(LevelT), TextHook(LevelT)}}
                    ELSE {}),
     order : {"fwd", "rev"},
     driver : {drv}]

NoCfg ==
    [kind |-> "scalar", elem |-> "scalar", fb |-> "none", pre |-> "none",
     innerInit |-> FALSE, val |-> "none", xdef |-> FALSE, var |-> "plain"]
NoOracle == [fail |-> {}, order |-> "fwd", driver |-> "json"]

(***************************************************************************)
(* validation.Validate.                                                    *)
(***************************************************************************)
\* The type declares Validate, on its pointer or on its value.
HasValidator(t) == "hasVal" \in DOMAIN t /\ t.hasVal

\* The type declares Validate on its value: the method is then also in the
\* method set of the pointer, and calling it through a nil pointer panics.
OnValue(t) == "onValue" \in DOMAIN t /\ t.onValue

\* The type whose Validate is found on a value of type t: a pointer has the
\* methods of what it points to.
Validated(t) == IF t.kind = "ptr" THEN t.elem ELSE t

\* value.CanInterface() for the field fd of a struct whose value can be
\* interfaced or not: false for an unexported field and all below it.
CanInterface(ci, fd) == ci /\ fd.exported

\* The number of values that validateReflect visits directly below v.
NumChildren(t, v) ==
    CASE v.k = "ptr" -> 1
      [] v.k = "seq" -> Len(v.items)
      [] v.k = "map" -> Cardinality(DOMAIN v.ents)
      [] v.k = "rec" -> Len(t.fields)
      [] OTHER -> 0

\* path.push(entry, kind): the path with one more entry, the latest last.
Push(path, entry, kind) == path \o << [entry |-> entry, kind |-> kind] >>

\* The i-th of them: its type, its value, its path and whether it can be
\* interfaced.  The keys of a map are strings, which declare nothing; its
\* values are visited in the order of MapRange.
Child(t, v, at, ci, o, i) ==
    CASE v.k = "ptr" ->
           [t |-> t.elem, v |-> v.to, at |-> Push(at, "0", "POINTER"), ci |-> ci]
      [] v.k = "seq" ->
           [t |-> t.elem, v |-> v.items[i], at |-> Push(at, ToString(i - 1), "INDEX"),
            ci |-> ci]
      [] v.k = "map" ->
           LET key == KeyName(Order(Cardinality(DOMAIN v.ents), o)[i])
           IN [t |-> t.elem, v |-> v.ents[key], at |-> Push(at, key, "VALUE"), ci |-> ci]
      [] OTHER ->
           [t |-> t.fields[i].typ, v |-> v.f[t.fields[i].name],
            at |-> Push(at, t.fields[i].name, "FIELD"),
            ci |-> CanInterface(ci, t.fields[i])]

\* validateReflect, the end: Validate is called when the value can be
\* interfaced and its type, or the pointer to it, is a Validator: on the
\* value if it is a pointer, else on a pointer to it or to a copy of it.
ValidateSelf(t, v, at, ci) ==
    IF ci /\ HasValidator(Validated(t))
    THEN << [t |-> Validated(t), v |-> IF t.kind = "ptr" THEN v ELSE PtrTo(v),
             at |-> at] >>
    ELSE <<>>

RECURSIVE ValidateCalls(_, _, _, _, _)
RECURSIVE ValidateChildren(_, _, _, _, _, _)

\* validateReflect, the loops: the calls of Validate for the children of v
\* from the i-th on, were none of them to reject.
ValidateChildren(t, v, at, ci, o, i) ==
    IF i > NumChildren(t, v)
    THEN <<>>
    ELSE LET c == Child(t, v, at, ci, o, i)
         IN ValidateCalls(c.t, c.v, c.at, c.ci, o)
              \o ValidateChildren(t, v, at, ci, o, i + 1)

\* validateReflect: the calls of Validate that it makes for the value v of
\* type t, in order and were none of them to reject: below v first, then v.
ValidateCalls(t, v, at, ci, o) ==
    ValidateChildren(t, v, at, ci, o, 1) \o ValidateSelf(t, v, at, ci)

\* The call c of Validate panics: a method declared on the value is called
\* through a nil pointer.
CallPanics(c) == c.v = Nil /\ OnValue(c.t)

\* The call c of Validate returns an error.  The validators reject a nil
\* receiver, a record whose checked field is bad, and a named scalar,
\* slice, array or map that holds a bad number.
CallRejects(c) ==
    CASE c.v = Nil -> ~OnValue(c.t)
      [] c.v # Nil /\ c.t.kind = "record" -> Rejects(c.t, c.v.to)
      [] OTHER -> NamedRejects(c.t, c.v.to)

\* The first call that does not return nil, 0 when every call does.
FirstFailure(calls) ==
    IF \E i \in DOMAIN calls : CallPanics(calls[i]) \/ CallRejects(calls[i])
    THEN CHOOSE i \in DOMAIN calls :
           /\ CallPanics(calls[i]) \/ CallRejects(calls[i])
           /\ \A j \in 1..(i - 1) : ~(CallPanics(calls[j]) \/ CallRejects(calls[j]))
    ELSE 0

\* validation.Error.Error, what one entry of the path adds to buf: the name
\* of a field, the index or the key between brackets, nothing for the
\* target of a pointer or the content of an interface.
Rendered(entry) ==
    CASE entry.kind = "FIELD" -> << entry.entry >>
      [] entry.kind = "INDEX" -> << "[" \o entry.entry \o "]" >>
      [] entry.kind = "KEY" -> << "[>> " \o entry.entry \o " <<]" >>
      [] entry.kind = "VALUE" -> << "[" \o entry.entry \o "]" >>
      [] OTHER -> <<>>

RECURSIVE Buf(_)
\* validation.Error.Error, the first loop: buf, filled from the latest entry
\* of the path back to the first.
Buf(path) ==
    IF path = <<>>
    THEN <<>>
    ELSE Rendered(path[Len(path)]) \o Buf(SubSeq(path, 1, Len(path) - 1))

\* validation.Error.Error: "validation error at %s:\n\t * %s" with buf, a
\* slice of strings that %s shows between brackets, and the wrapped error.
\* The second loop of the function builds `serialized`, the same entries from
\* the first of the path on and "root" when there is none, and the message
\* is not built from it.
ErrorText(path, wrapped) ==
    <<"validation error at ", "[">> \o Buf(path) \o <<"]", ":\n\t * ">> \o wrapped

\* validation.Error{wrapped: err, path: path}.
ValidationError(path, wrapped) ==
    [ok |-> FALSE, panic |-> FALSE, as |-> {"validation"}, op |-> "", structure |-> "",
     msg |-> ErrorText(path, wrapped)]

\* What validateReflect returns given the calls it would make: it stops at
\* the first rejection and returns a validation.Error for it.
Validation(calls, n) ==
    [err |-> CASE n = 0 -> NoErr
               [] n # 0 /\ CallPanics(calls[n]) ->
                    GoPanic(<<"value method called using nil pointer">>)
               [] OTHER -> ValidationError(calls[n].at, ValidateError(calls[n].t)),
     tr |-> [i \in 1..(IF n = 0 THEN Len(calls) ELSE n) |->
               Ev("Validate", calls[i].at, calls[i].t.name)]]

\* validateReflect returns to Validate.
Checked(calls) == Validation(calls, FirstFailure(calls))

\* validation.Validate(&v) for v of type t: validateReflect on the pointer.
Validate(t, v, o) ==
    Checked(ValidateCalls([kind |-> "ptr", name |-> "", elem |-> t], PtrTo(v), <<>>,
                          TRUE, o))

(***************************************************************************)
(* The state machine: a deserializer is built for one target type, then    *)
(* called any number of times; every call returns before the next.         *)
(***************************************************************************)
VARIABLES
    built,    \* "none", "ok" (a deserializer exists) or "error" (the build failed)
    driver,   \* the driver of the options of the build: "json" or "kvlist"
    cfg,      \* the target type the deserializer was built for
    api,      \* the call that has just returned, "idle" when none
    input,    \* the dictionary of that call
    oracle,   \* the oracle of that call
    err,      \* the error the call returned
    ret,      \* the *T that DeserializeDict returned
    slot,     \* the content of the reflect.Value passed to DeserializeDictTo
    trace,    \* the events of the call
    captured, \* the positions of the struct closures of the deserializer whose
              \* captured wasPreInitialized has been assigned by a call
    kv,       \* the kvlist driver that the last build made, as the build left it
    prev,     \* the build before the last one: its type, driver and outcome
    stack     \* the calls in progress of a build that is followed call by call

vars == <<built, driver, cfg, api, input, oracle, err, ret, slot, trace, captured,
          kv, prev, stack>>

\* No build came before.
NoBuild == [cfg |-> NoCfg, driver |-> "none", built |-> "none", same |-> FALSE]

\* The assignments `wasPreInitialized = true` of a call: the positions of
\* the closures that made them.
PlanWrites(tr) == {tr[i].at : i \in {j \in DOMAIN tr : tr[j].e = "wasPreInitialized"}}

Init ==
    /\ built = "none"
    /\ driver = "none"
    /\ cfg = NoCfg
    /\ api = "idle"
    /\ input = Dict(NoEntries)
    /\ oracle = NoOracle
    /\ err = NoErr
    /\ ret = Nil
    /\ slot = Nil
    /\ trace = <<>>
    /\ captured = {}
    /\ kv = KVDriver
    /\ prev = NoBuild
    /\ stack = <<>>

\* What a build keeps of the build before it: whether it was for the same
\* type with the same options, and its outcome.
Earlier(p, c, d) ==
    IF p.built = "none"
    THEN p
    ELSE [cfg |-> IF p.cfg = c /\ p.driver = d THEN c ELSE NoCfg,
          driver |-> p.driver, built |-> p.built,
          same |-> p.cfg = c /\ p.driver = d]

\* MakeMapDeserializer[Root](JSONOptions("")) and
\* MakeMapDeserializerFromReflect for the same type.
MakeMapDeserializer ==
    /\ built = "none"
    /\ \E c \in SchemaCfg :
         /\ cfg' = c
         /\ built' = IF Compiles(c) THEN "ok" ELSE "error"
         /\ prev' = Earlier(prev, c, "json")
    /\ driver' = "json"
    /\ captured' = {}
    /\ UNCHANGED <<api, input, oracle, err, ret, slot, trace, kv, stack>>

\* MakeKVListDeserializer[Root](QueryOptions("")), with a fresh driver.
MakeKVListDeserializer ==
    /\ built = "none"
    /\ \E c \in SchemaCfg :
         /\ cfg' = c
         /\ \E u \in {NewDriver(kv)} :
              /\ built' = IF KVCompiles(u, c) THEN "ok" ELSE "error"
              /\ kv' = EnterOuter(u, RootT(c))
         /\ prev' = Earlier(prev, c, "kvlist")
    /\ driver' = "kvlist"
    /\ captured' = {}
    /\ UNCHANGED <<api, input, oracle, err, ret, slot, trace, stack>>

CallDeserializeDict ==
    /\ built = "ok"
    /\ driver = "json"
    /\ api = "idle"
    /\ \E d \in InputDicts(cfg), o \in Oracles(cfg, driver) :
         \E r \in {DeserializeDict(cfg, d, o)} :
            /\ api' = "DeserializeDict"
            /\ input' = d
            /\ oracle' = o
            /\ err' = r.err
            /\ ret' = r.ret
            /\ trace' = r.tr
            /\ captured' = captured \cup PlanWrites(r.tr)
    /\ UNCHANGED <<built, driver, cfg, slot, kv, prev, stack>>

CallDeserializeKVList ==
    /\ built = "ok"
    /\ driver = "kvlist"
    /\ api = "idle"
    /\ \E d \in KVLists(cfg), o \in Oracles(cfg, driver) :
         \E r \in {DeserializeKVList(cfg, d, o)} :
            /\ api' = "DeserializeKVList"
            /\ input' = d
            /\ oracle' = o
            /\ err' = r.err
            /\ ret' = r.ret
            /\ trace' = r.tr
            /\ captured' = captured \cup PlanWrites(r.tr)
    /\ UNCHANGED <<built, driver, cfg, slot, kv, prev, stack>>

\* The caller passes a reflect.Value holding the zero value of Root.
CallDeserializeDictTo ==
    /\ built = "ok"
    /\ driver = "json"
    /\ api = "idle"
    /\ \E d \in InputDicts(cfg), o \in Oracles(cfg, driver) :
         \E r \in {DeserializeDictTo(cfg, d, Zero(RootT(cfg)), o)} :
            /\ api' = "DeserializeDictTo"
            /\ input' = d
            /\ oracle' = o
            /\ err' = r.err
            /\ slot' = r.slot
            /\ trace' = r.tr
            /\ captured' = captured \cup PlanWrites(r.tr)
    /\ UNCHANGED <<built, driver, cfg, ret, kv, prev, stack>>

\* The caller drops the result of the call; the deserializer is unchanged
\* and can be called again.
Return ==
    /\ api # "idle"
    /\ api' = "idle"
    /\ input' = Dict(NoEntries)
    /\ oracle' = NoOracle
    /\ err' = NoErr
    /\ ret' = Nil
    /\ slot' = Nil
    /\ trace' = <<>>
    /\ UNCHANGED <<built, driver, cfg, captured, kv, prev, stack>>

\* The program drops the deserializer, or the error of the build, and goes
\* on to build another one.
Discard ==
    /\ built # "none"
    /\ api = "idle"
    /\ prev = NoBuild
    /\ prev' = [cfg |-> cfg, driver |-> driver, built |-> built, same |-> FALSE]
    /\ built' = "none"
    /\ driver' = "none"
    /\ cfg' = NoCfg
    /\ captured' = {}
    /\ UNCHANGED <<api, input, oracle, err, ret, slot, trace, kv, stack>>

Next ==
    \/ MakeMapDeserializer
    \/ MakeKVListDeserializer
    \/ CallDeserializeDict
    \/ CallDeserializeKVList
    \/ CallDeserializeDictTo
    \/ Return

Spec == Init /\ [][Next]_vars

\* The types given to validation.Validate: Root with F of every kind, F
\* exported or not, Validate declared on the pointer of Inner or on its
\* value, or on a named scalar, slice, array or map.
ValidateCfg ==
    { c \in [kind : FieldKinds, elem : {"scalar", "record"}, fb : {"none"},
             pre : {"none"}, innerInit : {FALSE}, val : {"none", "rej2"},
             xdef : {FALSE},
             var : {"plain", "unexported", "onValue"} \cup NamedVariants] :
        /\ (c.kind = "scalar" => c.elem = "scalar")
        /\ (c.kind = "record" => c.elem = "record")
        /\ (c.elem # "record" => c.val = "none")
        /\ (c.var = "onValue" => c.elem = "record" /\ c.val = "rej2")
        /\ (c.var \in NamedVariants =>
              c.kind \in {"scalar", "slice", "array", "map"} /\ c.elem = "scalar") }

\* A program that holds a value of one of these types in `slot`.
InitValidate ==
    /\ built = "none"
    /\ driver = "none"
    /\ cfg \in ValidateCfg
    /\ api = "idle"
    /\ input = Dict(NoEntries)
    /\ oracle = NoOracle
    /\ err = NoErr
    /\ ret = Nil
    /\ slot \in ValuesOf(RootT(cfg))
    /\ trace = <<>>
    /\ captured = {}
    /\ kv = KVDriver
    /\ prev = NoBuild
    /\ stack = <<>>

\* validation.Validate(&slot).
CallValidate ==
    /\ api = "idle"
    /\ built = "none"
    /\ slot # Nil
    /\ \E o \in [fail : {{}}, order : {"fwd", "rev"}, driver : {"none"}] :
         \E r \in {Validate(RootT(cfg), slot, o)} :
            /\ api' = "Validate"
            /\ oracle' = o
            /\ err' = r.err
            /\ trace' = r.tr
    /\ UNCHANGED <<built, driver, cfg, input, ret, slot, captured, kv, prev, stack>>

NextValidate == CallValidate

SpecValidate == InitValidate /\ [][NextValidate]_vars

CallDeserializeList ==
    /\ built = "ok"
    /\ driver = "json"
    /\ api = "idle"
    /\ \E l \in InputLists(cfg), o \in {x \in Oracles(cfg, driver) : x.order = "fwd"} :
         \E r \in {DeserializeList(cfg, l, o)} :
            /\ api' = "DeserializeList"
            /\ input' = l
            /\ oracle' = o
            /\ err' = r.err
            /\ ret' = r.ret
            /\ trace' = r.tr
            /\ captured' = captured \cup PlanWrites(r.tr)
    /\ UNCHANGED <<built, driver, cfg, slot, kv, prev, stack>>

\* The calls of a program that decodes lists of dictionaries.
NextList ==
    \/ MakeMapDeserializer
    \/ CallDeserializeList

SpecList == Init /\ [][NextList]_vars

\* The builds of a program that builds a deserializer, drops it and builds
\* another one.
NextBuilds ==
    \/ MakeMapDeserializer
    \/ MakeKVListDeserializer
    \/ Discard

SpecBuilds == Init /\ [][NextBuilds]_vars

(***************************************************************************)
(* The build of a deserializer, call by call.  Every make* function builds *)
(* the plans of the types below its own before it returns, by calls of     *)
(* makeFieldDeserializerFromReflect that nest as the type definition       *)
(* nests.  The target types are declared by name, so that a record can     *)
(* refer to itself:                                                        *)
(*                                                                         *)
(*   type Root struct { A int; F *Root }            link "ptr", via "self"  *)
(*   type Root struct { A int; F Inner }            via "inner"             *)
(*   type Inner struct { X int; G []Root }          link "slice"            *)
(*                                                                         *)
(* with F (or G) an int when link is "none", and Root implementing         *)
(* encoding.TextUnmarshaler on pointers when raw is set.                   *)
(***************************************************************************)
\* The frames the goroutine stack has room for: the build dies with a
\* stack overflow when one more is needed.
MaxStack == 6

RecursiveCfg == [link : {"none", "ptr", "slice", "map"}, via : {"self", "inner"},
                 raw : BOOLEAN]

\* reflect.Type of a declared record: its name stands for it.
Named(c, name) == [kind |-> "record", name |-> name, raw |-> c.raw /\ name = "Root"]

\* The type of the field that refers back to Root.
Linked(c) ==
    CASE c.link = "ptr" -> [kind |-> "ptr", name |-> "", elem |-> Named(c, "Root")]
      [] c.link = "slice" -> [kind |-> "slice", name |-> "", elem |-> Named(c, "Root")]
      [] c.link = "map" ->
           [kind |-> "map", name |-> "", key |-> "string", elem |-> Named(c, "Root")]
      [] OTHER -> IntT

\* The types whose plans the make* function of type t builds, in order:
\* the target of a pointer, the element of a slice, array or map, the types
\* of the fields of a struct.
Below(c, t) ==
    CASE t.kind \in {"ptr", "slice", "array", "map"} -> << t.elem >>
      [] t.kind = "record" /\ t.name = "Root" ->
           << IntT, IF c.via = "self" THEN Linked(c) ELSE Named(c, "Inner") >>
      [] t.kind = "record" /\ t.name # "Root" -> << IntT, Linked(c) >>
      [] OTHER -> <<>>

\* A call of makeFieldDeserializerFromReflect in progress: its type and the
\* next of the types below it to build.
Frame(t) == [typ |-> t, next |-> 1]

\* options.unmarshaler.Enter as the build calls it: the json driver accepts
\* everything and keeps nothing.
Entered(d, u, t) == IF d = "kvlist" THEN Enter(u, t) ELSE u

RECURSIVE Unwound(_, _, _)
\* The deferred Exit calls of the frames i, i - 1, ..., 1 of the stack, run
\* when an error is returned through them.
Unwound(u, frames, i) ==
    IF i = 0 THEN u ELSE Unwound(Exit(u, frames[i].typ), frames, i - 1)

\* A program that builds nothing yet.
InitCompile == Init

\* MakeMapDeserializer[Root] or MakeKVListDeserializer[Root] is called:
\* makeOuterStructDeserializerFromReflect enters Root.
StartBuild ==
    /\ built = "none"
    /\ \E c \in RecursiveCfg, d \in {"json", "kvlist"} :
         /\ cfg' = c
         /\ driver' = d
         /\ kv' = Entered(d, KVDriver, Named(c, "Root"))
         /\ stack' = << Frame(Named(c, "Root")) >>
    /\ built' = "building"
    /\ UNCHANGED <<api, input, oracle, err, ret, slot, trace, captured, prev>>

\* The type the innermost call builds next, if any.
Top == stack[Len(stack)]
HasNext == Top.next <= Len(Below(cfg, Top.typ))
NextType == Below(cfg, Top.typ)[Top.next]

\* The innermost call calls makeFieldDeserializerFromReflect for the next
\* type below its own, and the driver accepts that type.
Descend ==
    /\ built = "building"
    /\ HasNext
    /\ Len(stack) < MaxStack
    /\ ~Entered(driver, kv, NextType).failed
    /\ kv' = Entered(driver, kv, NextType)
    /\ stack' = [stack EXCEPT ![Len(stack)].next = @ + 1] \o << Frame(NextType) >>
    /\ UNCHANGED <<built, driver, cfg, api, input, oracle, err, ret, slot, trace,
                   captured, prev>>

\* The same call when the driver refuses the type: the error is returned
\* through every call in progress and the build returns it.
Refuse ==
    /\ built = "building"
    /\ HasNext
    /\ Entered(driver, kv, NextType).failed
    /\ kv' = Unwound(Entered(driver, kv, NextType), stack, Len(stack))
    /\ stack' = <<>>
    /\ built' = "error"
    /\ UNCHANGED <<driver, cfg, api, input, oracle, err, ret, slot, trace, captured,
                   prev>>

\* The same call when the stack has no room for it: the Go runtime ends the
\* program with a fatal stack overflow, which cannot be recovered.
StackOverflow ==
    /\ built = "building"
    /\ HasNext
    /\ Len(stack) = MaxStack
    /\ ~Entered(driver, kv, NextType).failed
    /\ built' = "overflow"
    /\ UNCHANGED <<driver, cfg, api, input, oracle, err, ret, slot, trace, captured,
                   kv, prev, stack>>

\* The innermost call has built every plan below its own: it builds the
\* flat plan of its type, returns its plan, and its deferred Exit runs.  The
\* outermost call returns the deserializer.
Ascend ==
    /\ built = "building"
    /\ ~HasNext
    /\ kv' = CASE driver = "json" -> kv
               [] driver # "json" /\ Len(stack) = 1 -> Exit(kv, Top.typ)
               [] OTHER -> LeaveField(kv, Top.typ, FALSE)
    /\ stack' = SubSeq(stack, 1, Len(stack) - 1)
    /\ built' = IF Len(stack) = 1 THEN "ok" ELSE "building"
    /\ UNCHANGED <<driver, cfg, api, input, oracle, err, ret, slot, trace, captured,
                   prev>>

NextCompile ==
    \/ StartBuild
    \/ Descend
    \/ Refuse
    \/ StackOverflow
    \/ Ascend

\* A call in progress goes on: the program is not stopped from outside.
SpecCompile == InitCompile /\ [][NextCompile]_vars /\ WF_vars(NextCompile)

(***************************************************************************)
(* Vocabulary of the properties.                                           *)
(***************************************************************************)
\* The token sequence pat occurs in the message msg.
Contains(msg, pat) ==
    \E i \in 1..(Len(msg) + 1 - Len(pat)) : SubSeq(msg, i, i + Len(pat) - 1) = pat

\* p is a prefix of the position q.
IsPrefix(p, q) == Len(p) <= Len(q) /\ SubSeq(q, 1, Len(p)) = p

\* A call with a dictionary has returned.
Called == api \in {"DeserializeDict", "DeserializeDictTo"}
HasEntry(key) == key \in DOMAIN input.ents

\* The record handed to the caller by a call that succeeded, and its field F.
Result == IF api = "DeserializeDictTo" THEN slot ELSE ret.to
ResultF == Result.f["F"]

\* The path of the root in messages: the name of the type for a typed
\* deserializer, the empty RootPath of the options for DeserializeDictTo.
RootPath == IF api = "DeserializeDictTo" THEN <<>> ELSE <<"Root">>

\* The position holds a record or a map: F is one, or a pointer to a record.
ObjectPosition ==
    cfg.kind \in {"map", "record"} \/ (cfg.kind = "ptr" /\ cfg.elem = "record")

\* The record at F, or behind the pointer F, implements Initializer itself.
OwnInitializer == cfg.innerInit /\ cfg.kind \in {"record", "ptr"}

\* The indices of the events e at position p, and of the events below p.
Idx(e, p) == {i \in DOMAIN trace : trace[i].e = e /\ trace[i].at = p}
Under(p) == {i \in DOMAIN trace : IsPrefix(p, trace[i].at) /\ trace[i].at # p}

\* The path under which a message names the record at position `at`: map
\* entries are rendered "[]".
ExpectedPath(at) ==
    RootPath \o [i \in 1..(Len(at) - 1) |->
                   IF at[i + 1] \in {KeyName(j) : j \in 1..4} THEN "[]" ELSE at[i + 1]]

(***************************************************************************)
(* C1: a required field without a value.                                   *)
(***************************************************************************)
\* F takes its value from entry "f" of the dictionary of the call: it is not
\* flattened, and Root has no decoding hook that replaces its fields.
C1_Applies ==
    /\ api = "DeserializeDict"
    /\ cfg.fb = "none"
    /\ cfg.pre = "none"
    /\ cfg.var \notin FlattenVariants
    /\ ~WillPreinitialize(RootT(cfg))
    /\ ~HasEntry("f")

C2_Outcome == IF api = "DeserializeDict" THEN <<err, ret>> ELSE <<err, slot>>
C2_FromEmptyDict ==
    LET d == Dict(("f" :> Dict(NoEntries)) @@ input.ents)
    IN IF api = "DeserializeDict"
       THEN CHOOSE x \in {<<r.err, r.ret>> : r \in {DeserializeDict(cfg, d, oracle)}} : TRUE
       ELSE CHOOSE x \in {<<r.err, r.slot>> :
                            r \in {DeserializeDictTo(cfg, d, Zero(RootT(cfg)), oracle)}}
                   : TRUE

C3_AsStated ==
    (/\ Called
     /\ cfg.kind \in {"scalar", "ptr", "slice", "map", "record"}
     /\ cfg.fb = "orMethod"
     /\ cfg.pre = "none"
     /\ ~OwnInitializer
     /\ ~HasEntry("f")
     /\ Lookup(input.ents, "a") = Num(1)
     /\ oracle.fail = {}) =>
        /\ \E i \in DOMAIN trace : trace[i].e = "orMethod"
        /\ err.ok
        /\ ResultF = Constructed(FieldT(cfg))

(***************************************************************************)
(* C4: one resolution order for every plan.                                *)
(***************************************************************************)
\* C4, as stated: when F has no value, (1) a pre-initialized F keeps the
\* value it holds and its constructor is not called; otherwise (3) the
\* constructor of a field tagged orMethod is called, and (4) a field with
\* neither default nor constructor makes the decode fail.
C4_AsStated ==
    (Called /\ ~HasEntry("f") /\ HasEntry("a") /\ oracle.fail = {}) =>
        /\ cfg.pre # "none" =>
              /\ \A i \in DOMAIN trace : trace[i].e # "orMethod"
              /\ (cfg.pre = "rootInit" /\ err.ok) =>
                     ResultF = InitializeOf(FieldT(cfg))
        /\ (cfg.pre = "none" /\ cfg.fb = "orMethod" /\ ~OwnInitializer) =>
              \E i \in DOMAIN trace : trace[i].e = "orMethod"
        /\ (cfg.pre = "none" /\ cfg.fb = "none" /\ ~OwnInitializer) => ~err.ok

(***************************************************************************)
(* C5: what Initialize wrote is kept.                                      *)
(***************************************************************************)
\* C5, as stated: after a successful decode of a record whose Initialize set
\* F, if the input has no entry for F then F is what Initialize wrote,
\* whether F is a scalar, a pointer, a slice, a map or a record.
C5_AsStated ==
    (/\ Called
     /\ cfg.kind \in {"scalar", "ptr", "slice", "map", "record"}
     /\ cfg.pre = "rootInit"
     /\ ~HasEntry("f")
     /\ err.ok) =>
        ResultF = InitializeOf(FieldT(cfg))

(***************************************************************************)
(* C6: a rejected record fails the whole call.                             *)
(***************************************************************************)
\* C6: when Validate rejects a record at any position of the decoded tree,
\* the call fails and returns no result, the error is matched by errors.As
\* as a validation.Error, and its message contains the path of the rejected
\* record and the message Validate returned.
C6_ValidationError ==
    \A i \in DOMAIN trace :
        trace[i].e = "Rejected" =>
            /\ ~err.ok
            /\ api = "DeserializeDict" => ret = Nil
            /\ "validation" \in err.as
            /\ Contains(err.msg, ExpectedPath(trace[i].at))
            /\ Contains(err.msg, << trace[i].by \o ".Validate rejected" >>)

\* C6, witness: Inner.Validate rejects the second element of a slice, and
\* the message names Root.f[1].
C6_Witness ==
    /\ api = "DeserializeDict"
    /\ cfg.kind = "slice"
    /\ \E i \in DOMAIN trace :
          /\ trace[i].e = "Rejected"
          /\ trace[i].at = <<"Root", ".f", "[1]">>
    /\ "validation" \in err.as
    /\ Contains(err.msg, <<"Root", ".f", "[1]">>)

(***************************************************************************)
(* C7: a rejected record is not handed to the caller.                      *)
(***************************************************************************)
\* C7, as stated: when Root.Validate rejects the decoded record, the typed
\* call returns nil, and the reflect.Value given to DeserializeDictTo does
\* not hold the rejected record after the call.
C7_AsStated ==
    (Called /\ Idx("Rejected", <<"Root">>) # {}) =>
        /\ api = "DeserializeDict" => ret = Nil
        /\ api = "DeserializeDictTo" => ~Rejects(RootT(cfg), slot)

(***************************************************************************)
(* C8: the life of a record instance.                                      *)
(***************************************************************************)
\* C8, as stated: for every record instance that is allocated, Initialize
\* returns before any of its fields is decoded, Validate is called after all
\* of its fields and nested records are done, and no stage (allocate,
\* pre-initialize, validate, commit) is entered twice.
C8_AsStated ==
    \A j \in DOMAIN trace :
        trace[j].e = "alloc" =>
            LET p == trace[j].at
            IN /\ \A i \in Idx("Initialize", p), k \in Under(p) : i < k
               /\ \A v \in Idx("Validate", p), k \in Under(p) : k < v
               /\ \A e \in {"alloc", "Initialize", "Validate", "Set"} :
                     Cardinality(Idx(e, p)) <= 1

(***************************************************************************)
(* C9: the first failure is the one returned.                              *)
(***************************************************************************)
\* C9, as stated: when a user hook (Initialize, a constructor) fails for a
\* record instance or one of its fields, Validate is not called for that
\* instance afterwards, and the call returns that failure.
C9_AsStated ==
    \A i \in DOMAIN trace :
        trace[i].e = "Failed" =>
            /\ ~err.ok
            /\ Contains(err.msg, << trace[i].by \o " failed" >>)
            /\ \A v \in DOMAIN trace :
                  (v > i /\ trace[v].e = "Validate") =>
                      ~IsPrefix(trace[v].at, trace[i].at)

(***************************************************************************)
(* C10: the failures of user hooks.                                        *)
(***************************************************************************)
\* C10, as stated: every failure of a user hook makes the call fail with a
\* CustomDeserializerError whose Operation names the hook and whose message
\* is the error of the hook after its context.
C10_AsStated ==
    \A i \in DOMAIN trace :
        trace[i].e = "Failed" =>
            /\ ~err.ok
            /\ "custom" \in err.as
            /\ err.op = IF trace[i].e = "Failed" /\ trace[i].by = "MakeF"
                        THEN "orMethod" ELSE "initializer"
            /\ Contains(err.msg, << trace[i].by \o " failed" >>)
            /\ \/ Contains(err.msg, <<"error in optional value at ">>)
               \/ Contains(err.msg,
                           <<", encountered an error while initializing optional fields:\n\t * ">>)

(***************************************************************************)
(* C11: misconfigured target types are rejected when the deserializer is   *)
(* built.                                                                  *)
(***************************************************************************)
\* The declaration of the target type has one of the misconfigurations: a
\* field with both `default` and `orMethod`; a field that is unexported or
\* renamed "-" where nothing pre-initializes it; an `orMethod` naming a
\* method that does not exist, takes arguments or returns the wrong values;
\* a `default` literal that is not the one of the kind of the field; a map
\* keyed by something else than strings; a tag key written twice; a hook
\* declared on a value receiver.
Misconfigured(c) ==
    \/ c.var \in {"both", "noMethod", "methodArgs", "methodOut", "methodType",
                  "methodErr", "badDefault", "otherDefault", "mapKey", "dupTag",
                  "onValue"}
    \/ c.var \in {"unexported", "dash"} /\ c.pre = "none"

\* C11: once a deserializer has been asked for a misconfigured target type,
\* the build has returned an error and no deserializer, and no decode call
\* has been made on it.
C11_CompileTime ==
    (built # "none" /\ Misconfigured(cfg)) => (built = "error" /\ api = "idle")

\* A build has rejected a map keyed by integers, the last check listed.
C11_Witness ==
    /\ built = "error"
    /\ cfg.var = "mapKey"
    /\ Misconfigured(cfg)

(***************************************************************************)
(* C12: what the driver of (key, value list) inputs refuses to build.      *)
(***************************************************************************)
\* The target type contains a nested record field that is not flattened
\* (F itself, or G of Inner wherever Inner occurs), a slice or array of
\* records, or a slice or array of slices.
KVNested(c) ==
    \/ c.elem = "record" /\ c.var \notin {"flattenAll", "flattenTwice"}
    \/ c.kind \in {"slice", "array"} /\ c.elem \in {"record", "slice"}

\* The nested record field F has a type that decodes itself from text
\* (it implements encoding.TextUnmarshaler), which the driver takes as a
\* leaf together with everything in it.
KVTextLeaf(c) == c.kind = "record" /\ CanBeALeaf(InnerT(c))

PrivateF(c) == c.var \in NameVariants \cup PrivateFlattenVariants

\* r is what DeserializeDict returns for another input: when it succeeds,
\* its field F is the field F of the record the call of the state returned.
SameF(r) == r.err.ok => r.ret.to.f["F"] = ResultF

\* C13: when a call on a type whose F is not public has succeeded, a call of
\* the same deserializer on any other input gives F, and everything below
\* it, the same value.
C13_AsStated ==
    (api = "DeserializeDict" /\ err.ok /\ PrivateF(cfg)) =>
        \A d \in InputDicts(cfg) : SameF(DeserializeDict(cfg, d, oracle))

(***************************************************************************)
(* C14: flattened and embedded record fields.                              *)
(***************************************************************************)
\* The scalar an entry of the input stands for: a JSON number, or the one
\* string of a value list.
ScalarOf(in) == IF in.k = "num" THEN S(in.v) ELSE S(Parse(in.items[1].v))

\* The fields of Root that are flattened, and whether G of Inner is.
FlattenedFields == {"F"} \cup (IF cfg.var = "flattenTwice" THEN {"Inner"} ELSE {})
FlattenedG == cfg.var \in {"flattenAll", "flattenTwice"}

\* What Z of G of a flattened Inner is decoded from: entry "Z" of the
\* dictionary of the call when G is flattened as well, else entry "Z" of the
\* dictionary at "G" of the dictionary of the call; without an entry, the
\* default of Z.
ExpectedZ ==
    IF FlattenedG
    THEN IF HasEntry("Z") THEN ScalarOf(input.ents["Z"]) ELSE S(5)
    ELSE IF HasEntry("G") /\ "Z" \in DOMAIN input.ents["G"].ents
         THEN ScalarOf(input.ents["G"].ents["Z"])
         ELSE S(5)

\* C14: when a call of either driver on a type with flattened fields has
\* succeeded, the dictionary of the call has an entry for X, every flattened
\* field of Root holds a record that was allocated for it, whose X is that
\* entry and whose G comes from the same dictionary, whatever there is at
\* "f"; two flattened fields hold the same record.
C14_Flatten ==
    (api # "idle" /\ cfg.var \in FlattenVariants /\ err.ok) =>
        /\ HasEntry("X")
        /\ \A n \in FlattenedFields :
              /\ Result.f[n] = RecV([X |-> ScalarOf(input.ents["X"]),
                                     G |-> RecV([Z |-> ExpectedZ])])
              /\ \E i \in DOMAIN trace :
                    trace[i] = Ev("alloc",
                                  <<"Root", "." \o FieldNamed(RootT(cfg), n).public>>,
                                  "Inner")

\* A call of the driver of value lists has decoded both flattened fields of
\* Root from the keys "X" and "Z" while there was a key "f".
C14_Witness ==
    /\ api = "DeserializeKVList"
    /\ cfg.var = "flattenTwice"
    /\ err.ok
    /\ HasEntry("f")
    /\ HasEntry("Z")
    /\ Result.f["Inner"] = RecV([X |-> S(1), G |-> RecV([Z |-> S(2)])])

(***************************************************************************)
(* C15: record types with decoding hooks.                                  *)
(***************************************************************************)
\* The record type with the hooks, and the position of its instance.
HookT == IF cfg.kind = "record" THEN InnerT(cfg) ELSE RootT(cfg)
HookAt == IF cfg.kind = "record" THEN <<"Root", ".f">> ELSE <<"Root">>

\* The events of the call that are calls of hook h, and the plans of the
\* declared fields of the type with the hooks that were run.
Calls(h) == {i \in DOMAIN trace : trace[i].by = h /\ trace[i].e # "Failed"}
FieldPlansRun == {i \in DOMAIN trace : trace[i].e = "field" /\ trace[i].by = HookT.name}

\* An instance of the type with the hooks was decoded by the call.
HookDecodes ==
    /\ api # "idle"
    /\ cfg.var \in HookVariants
    /\ Idx("alloc", HookAt) # {}

\* C15, as stated: a call that decodes an instance of a type with a raw hook
\* or UnmarshalDict runs no plan of its declared fields and never calls its
\* Initialize; a type with both hooks has only UnmarshalDict called; and a
\* successful decode has called exactly one of the two kinds of hook.
C15_AsStated ==
    HookDecodes =>
        /\ FieldPlansRun = {}
        /\ Calls(InitHook(HookT)) = {}
        /\ HookT.dict => (Calls(RawHook(HookT)) = {} /\ Calls(TextHook(HookT)) = {})
        /\ err.ok =>
              (Calls(DictHook(HookT)) = {})
                 # (Calls(RawHook(HookT)) \cup Calls(TextHook(HookT)) = {})

(***************************************************************************)
(* C16: round trip.                                                        *)
(***************************************************************************)
\* Root has no optional field: A and F are required and the elements of F
\* are scalars.  No hook of the call fails.
C16_Applies ==
    /\ api = "DeserializeDict"
    /\ driver = "json"
    /\ cfg.var = "plain"
    /\ cfg.fb = "none"
    /\ cfg.pre = "none"
    /\ cfg.elem = "scalar"
    /\ oracle.fail = {}

\* The values of Root that Root.Validate accepts.
RoundTripValues(c) == {v \in ValuesOf(RootT(c)) : v.f["A"].v \notin RootT(c).bad}

\* C16, as stated: for every value v of a record type without optional
\* fields, decoding the dictionary obtained by encoding v succeeds and
\* yields a value deep-equal to v.
C16_AsStated ==
    C16_Applies =>
        \A v \in RoundTripValues(cfg) :
            input = Encode(RootT(cfg), v) => (err.ok /\ Result = v)

(***************************************************************************)
(* C17: concurrent decodes share no mutable state.                         *)
(***************************************************************************)
\* A decode call returns in this step.
DecodeStep == api = "idle" /\ api' # "idle"

FirstBuild(c, d) ==
    IF d = "json" THEN Compiles(c) ELSE KVCompiles(KVDriver, c)

\* A deserializer, or the error of a build, that came after another build.
Rebuilt == prev.built # "none" /\ built # "none"

ValidatedAt(at) == {i \in DOMAIN trace : trace[i].e = "Validate" /\ trace[i].at = at}

\* C19, as stated: a decoded value of a named scalar, slice, array or map
\* type that implements Validator on pointers has had Validate called on
\* it, and does not reach the caller when Validate rejects it.
C19_AsStated ==
    (api # "idle" /\ err.ok /\ cfg.var \in NamedVariants) =>
        /\ ValidatedAt(<<"Root", ".f">>) # {}
        /\ ~NamedRejects(FieldT(cfg), ResultF)

(***************************************************************************)
(* C20: validation.Validate.                                               *)
(***************************************************************************)
RECURSIVE RejectsBelow(_, _)
\* A value reachable from v, or v itself, is of a type that declares
\* Validate and is rejected by it; a nil pointer to such a type is.
RejectsBelow(t, v) ==
    \/ /\ HasValidator(Validated(t))
       /\ CASE t.kind = "ptr" /\ v = Nil -> TRUE
            [] t.kind = "ptr" /\ v # Nil -> FALSE
            [] t.kind = "record" -> Rejects(t, v)
            [] OTHER -> NamedRejects(t, v)
    \/ /\ v.k = "ptr"
       /\ RejectsBelow(t.elem, v.to)
    \/ /\ v.k = "seq"
       /\ \E i \in DOMAIN v.items : RejectsBelow(t.elem, v.items[i])
    \/ /\ v.k = "map"
       /\ \E key \in DOMAIN v.ents : RejectsBelow(t.elem, v.ents[key])
    \/ /\ v.k = "rec"
       /\ \E i \in DOMAIN t.fields : RejectsBelow(t.fields[i].typ, v.f[t.fields[i].name])

\* C20, as stated: validation.Validate(&v) returns nil if and only if no
\* validator of a value reachable from v rejects, nil pointers included,
\* and otherwise returns a validation.Error.
C20_AsStated ==
    api = "Validate" =>
        /\ err.ok <=> ~RejectsBelow(RootT(cfg), slot)
        /\ ~err.ok => ("validation" \in err.as /\ ~err.panic)

(***************************************************************************)
(* C21: the combined plan of a type with a structured and a flat plan.     *)
(***************************************************************************)
\* What the structured plan of Root returns to the combined closure of the
\* call of DeserializeDictTo that has returned, and what the flat plan
\* returns when it is run after it.
RootStructured ==
    SetSlot(NoTags, Zero(RootT(cfg)),
            StructPlan(RootT(cfg), <<>>, NoTags, FALSE, Zero(RootT(cfg)),
                       DictAsValue(input), oracle, <<"Root">>))
RootFlat(s) ==
    FlatPlan(RootT(cfg), <<>>, NoTags, FALSE, s.slot, DictAsValue(input), oracle,
             <<"Root">>)

\* The combined closure of Root returned what the claim says, given what its
\* two plans return.
RootCombined(s, f) ==
    CASE s.err.panic -> err = s.err
      [] ~s.err.panic /\ s.err.ok ->
           err.ok /\ slot = s.slot /\ Idx("flat", <<"Root">>) = {}
      [] ~s.err.panic /\ ~s.err.ok /\ "validation" \in s.err.as ->
           err = s.err /\ Idx("flat", <<"Root">>) = {}
      [] OTHER ->
           /\ Idx("flat", <<"Root">>) # {}
           /\ IF f.err.ok THEN err.ok /\ slot = f.slot ELSE err = s.err

\* C21: at every position where a combined closure has run, the structured
\* plan ran first and once; the flat plan did not run when the structured
\* plan succeeded or failed with a validation error, and that validation
\* error made the call fail with a validation error; the flat plan ran,
\* once and next, when the structured plan failed otherwise.  For the
\* combined closure of the root, the call returned the result of the
\* structured plan when it succeeded, its validation error when it failed
\* with one, the result of the flat plan when only the flat plan succeeded,
\* and the error of the structured plan when both failed.
C21_Combined ==
    /\ \A i \in DOMAIN trace :
           trace[i].e = "structured" =>
               LET p == trace[i].at
               IN /\ Idx("structured", p) = {i}
                  /\ trace[i].by \in {"ok", "validation"} => Idx("flat", p) = {}
                  /\ trace[i].by = "validation" => (~err.ok /\ "validation" \in err.as)
                  /\ trace[i].by = "error" => Idx("flat", p) = {i + 1}
    /\ \A j \in DOMAIN trace :
           trace[j].e = "flat" =>
               (j > 1 /\ trace[j - 1] = Ev("structured", trace[j].at, "error"))
    /\ api = "DeserializeDictTo" => RootCombined(RootStructured, RootFlat(RootStructured))

\* The structured plan of Root has failed (UnmarshalDict returned an error)
\* and the flat plan has decoded the record with the raw hook.
C21_Witness ==
    /\ api = "DeserializeDictTo"
    /\ Idx("structured", <<"Root">>) # {}
    /\ \A i \in Idx("structured", <<"Root">>) : trace[i].by = "error"
    /\ \A j \in Idx("flat", <<"Root">>) : trace[j].by = "ok"
    /\ err.ok

(***************************************************************************)
(* C22: a scalar field with a present value.                               *)
(***************************************************************************)
\* The value the plan of F is given by the call that has returned: entry
\* "f" of the dictionary, or the one string of the value list of key "f".
GivenF == IF api = "DeserializeKVList" THEN input.ents["f"].items[1] ELSE input.ents["f"]

\* The plan of the scalar field F has run on a present value.
C22_Applies ==
    /\ api # "idle"
    /\ TakesText(cfg)
    /\ HasEntry("f")
    /\ api = "DeserializeKVList" => Len(input.ents["f"].items) = 1
    /\ Idx("field", <<"Root", ".f">>) # {}

\* The rest of the call cannot fail: A has the value 1 and Initialize of
\* Root, if any, returns no error.
RestAccepted ==
    /\ HasEntry("a")
    /\ input.ents["a"] \in {Num(1), List(<< Str("1") >>)}
    /\ "Root.Initialize" \notin oracle.fail

\* The raw hook of the type of F returns no error when the driver calls it
\* (the json driver tries UnmarshalJSON then UnmarshalText, the list driver
\* UnmarshalText), and the number it then writes.
HookAccepts(t) ==
    IF driver = "json"
    THEN ~({RawHook(t), TextHook(t)} \subseteq oracle.fail)
    ELSE TextHook(t) \notin oracle.fail
HookWrites(t) == IF driver = "json" /\ RawHook(t) \notin oracle.fail THEN RawV ELSE TextV

\* The message of a call that failed says that the value of F is invalid.
InvalidF(t, in) ==
    Contains(err.msg,
             <<"invalid value at ">> \o RootPath
               \o <<".f", ", expected ", t.name, ", got ", Shown(in)>>)

\* F was accepted with the value n: a call that succeeded has F = n, the
\* call succeeded when the rest of the record is accepted, and no error
\* says that the value of F is invalid.
AcceptedF(t, in, n) ==
    /\ err.ok => ResultF = S(n)
    /\ RestAccepted => err.ok
    /\ ~InvalidF(t, in)

\* C22: when the plan of the scalar field F has run on a present value, a
\* number is used as it is and a string that parses as its parsed value,
\* both without a call of the raw hook of the type; a string that does not
\* parse is decoded by the raw hook when the type has one and the hook
\* returns no error; and in every other case the call fails, returns no
\* record and its message is "invalid value at <path>, expected <type>,
\* got <value>".
C22_Scalar ==
    C22_Applies =>
        LET t == FieldT(cfg)
            in == GivenF
            hooked == Calls(RawHook(t)) \cup Calls(TextHook(t))
        IN CASE in.k = "num" -> AcceptedF(t, in, in.v) /\ hooked = {}
             [] in.k = "str" /\ ParseOk(in.v) ->
                  AcceptedF(t, in, Parse(in.v)) /\ hooked = {}
             [] in.k = "str" /\ ~ParseOk(in.v) /\ ShouldUnmarshal(t) /\ HookAccepts(t) ->
                  AcceptedF(t, in, HookWrites(t)) /\ hooked # {}
             [] OTHER ->
                  /\ ~err.ok
                  /\ api # "DeserializeDictTo" => ret = Nil
                  /\ InvalidF(t, in)

\* The string "blue" given for a `type Level int` has been decoded by
\* UnmarshalJSON of Level.
C22_Witness ==
    /\ C22_Applies
    /\ api = "DeserializeDict"
    /\ cfg.var \in ScalarHookVariants
    /\ GivenF = Str("blue")
    /\ err.ok
    /\ ResultF = S(RawV)

(***************************************************************************)
(* C23: the order of the plans of the fields of a record.                  *)
(***************************************************************************)
\* The position of field F of Root in the events of a call.
AtF == <<"Root", "." \o FieldF(cfg).public>>

\* C23, as stated: in every call the plan of A, which is declared first,
\* has run before the plan of F; and when the plans of the fields of Root
\* have run on a dictionary without a value for the required field A, the
\* error returned is the one of A.
C23_AsStated ==
    api # "idle" =>
        /\ \A i \in Idx("field", <<"Root", ".a">>), j \in Idx("field", AtF) : i < j
        /\ (/\ Idx("field", <<"Root", ".a">>) \cup Idx("field", AtF) # {}
            /\ ~HasEntry("a")
            /\ cfg.pre # "rootInit") =>
               Contains(err.msg, <<"missing value at ">> \o RootPath \o <<".a">>)

(***************************************************************************)
(* C24: no user hook is called twice.                                      *)
(***************************************************************************)
\* The calls of Initialize and of constructors in the events of a call.
HookCalls == {i \in DOMAIN trace : trace[i].e \in {"Initialize", "orMethod"}}

\* The record a call of Initialize is for: the root, whether the call is
\* made on the result of DeserializeDict or on the staging instance, or
\* the record at a position below it.
InitializedRecord(i) == IF trace[i].at = <<"out">> THEN <<"Root">> ELSE trace[i].at

\* C24, as stated: within one call, Initialize is called at most once for
\* the root and for every nested record position, the constructor of a
\* field at most once, and a hook that has returned an error is not called
\* again.
C24_AsStated ==
    /\ \A i, j \in HookCalls :
           (/\ trace[i].e = trace[j].e
            /\ InitializedRecord(i) = InitializedRecord(j)) => i = j
    /\ \A i \in DOMAIN trace :
           trace[i].e = "Failed" =>
               \A j \in HookCalls : trace[j].by = trace[i].by => j < i

(***************************************************************************)
(* C25: maps.                                                              *)
(***************************************************************************)
\* The plan of the map field F has run on a dictionary.
C25_Applies ==
    /\ api # "idle"
    /\ cfg.kind = "map"
    /\ cfg.var = "plain"
    /\ HasEntry("f")
    /\ input.ents["f"].k = "dict"
    /\ Idx("field", AtF) # {}

\* The plan of the values of F fails for the value under key k of the
\* dictionary given for F.
ValueFails(k) ==
    ~FieldPlan(FieldT(cfg).elem, <<"Root", ".f", "[]">>, NoTags, FALSE,
               Zero(FieldT(cfg).elem), input.ents["f"].ents[k], oracle,
               <<"Root", ".f", k>>).err.ok

\* The message of the error names key k after the path of the map.
NamesKey(k) ==
    \E i \in DOMAIN err.msg :
        /\ i > 1
        /\ err.msg[i - 1] = ".f"
        /\ err.msg[i] \in {k, "[" \o k \o "]", "." \o k}

\* C25, as stated: when the plan of the map field F has run on a
\* dictionary, a call that succeeded gives F exactly the keys of the
\* dictionary, and when the value under some key fails to decode the call
\* fails with an error whose path ends with a key whose value fails.
C25_AsStated ==
    C25_Applies =>
        LET keys == DOMAIN input.ents["f"].ents
        IN /\ err.ok => (ResultF.k = "map" /\ DOMAIN ResultF.ents = keys)
           /\ (\E k \in keys : ValueFails(k)) =>
                 (~err.ok /\ \E k \in keys : ValueFails(k) /\ NamesKey(k))

(***************************************************************************)
(* C26: the message of a validation.Error.                                 *)
(***************************************************************************)
RECURSIVE RootToLeaf(_, _)
\* The entries of a path from the root on, as the claim renders them: the
\* names of the fields, the indices and keys between brackets, nothing for
\* pointers and interfaces.
RootToLeaf(path, i) ==
    IF i > Len(path) THEN <<>> ELSE Rendered(path[i]) \o RootToLeaf(path, i + 1)

\* The rendering of a path that the claim states: "root" when nothing is
\* rendered.
Stated(path) ==
    IF RootToLeaf(path, 1) = <<>> THEN <<"root">> ELSE RootToLeaf(path, 1)

\* C26, as stated: when validation.Validate has returned a validation.Error,
\* its message contains the path of the rejected value from the root to the
\* point of rejection, and "root" when that path is empty.
C26_AsStated ==
    (api = "Validate" /\ ~err.ok /\ ~err.panic) =>
        Contains(err.msg, Stated(trace[Len(trace)].at))

(***************************************************************************)
(* C27: a slice field whose key is not in the list of values.              *)
(***************************************************************************)
\* DeserializeKVList has run the plan of the slice field F of scalars, the
\* input has no key "f", and the rest of the call cannot fail.
C27_Applies ==
    /\ api = "DeserializeKVList"
    /\ cfg.kind = "slice" /\ cfg.elem = "scalar" /\ cfg.var = "plain"
    /\ ~HasEntry("f")
    /\ RestAccepted
    /\ Idx("field", <<"Root", ".f">>) # {}

\* C27, as stated: a slice field whose key is not in the input of
\* DeserializeKVList is absent: with no fallback the call fails with a
\* missing-value error, and with a named constructor a call that succeeds
\* has called the constructor.
C27_AsStated ==
    C27_Applies =>
        CASE cfg.fb = "none" /\ cfg.pre = "none" ->
               ~err.ok /\ Contains(err.msg, <<"missing value at ">>)
          [] cfg.fb = "orMethod" -> err.ok => Calls("MakeF") # {}
          [] OTHER -> TRUE

(***************************************************************************)
(* C28: DeserializeList.                                                   *)
(***************************************************************************)
\* What the deserializer returns for entry i of the list, a dictionary.
DecodedEntry(i) == DeserializeDict(cfg, input.items[i], oracle)

\* Entry i of the list cannot be decoded: it is not a dictionary, or the
\* deserializer returns an error for it.
Undecodable(i) == input.items[i].k # "dict" \/ ~DecodedEntry(i).err.ok

\* C28, as stated: a call of DeserializeList that succeeds returns one
\* record per entry of the list, the i-th being the decoded i-th entry, and
\* a list with an entry that cannot be decoded makes the call fail with an
\* error that names the index of the first such entry.
C28_AsStated ==
    api = "DeserializeList" =>
        LET bad == {i \in DOMAIN input.items : Undecodable(i)}
        IN /\ err.ok =>
                /\ Len(ret.items) = Len(input.items)
                /\ \A i \in DOMAIN input.items :
                      input.items[i].k = "dict" /\ ret.items[i] = DecodedEntry(i).ret.to
           /\ bad # {} =>
                LET first == CHOOSE i \in bad : \A j \in bad : i <= j
                IN /\ ~err.ok
                   /\ err.panic
                        \/ Contains(err.msg,
                                    <<"failed to deserialize entry ", ToString(first - 1)>>)

(***************************************************************************)
(* C29: what the driver of lists of values accepts at a build.             *)
(***************************************************************************)
RECURSIVE Representable(_)
\* Every field of the record type t is a leaf, a slice or array of leaves,
\* or a flattened record of the same shape.
Representable(t) ==
    \A i \in DOMAIN t.fields :
        LET fd == t.fields[i]
        IN \/ CanBeALeaf(fd.typ)
           \/ fd.typ.kind \in {"slice", "array"} /\ CanBeALeaf(fd.typ.elem)
           \/ fd.typ.kind = "record" /\ fd.tags.flatten /\ Representable(fd.typ)

\* MakeKVListDeserializer has returned for a type of that shape whose tags
\* and hooks are well formed.
C29_Applies ==
    /\ driver = "kvlist"
    /\ built # "none"
    /\ KVCompilesUnasked(KVDriver, cfg)
    /\ Representable(RootT(cfg))

\* C29, as stated: the build of a deserializer of lists of values for a
\* record whose fields are leaves, slices or arrays of leaves, or flattened
\* records of the same shape, succeeds and leaves the driver with no
\* struct, slice or leaf entered.
C29_AsStated == C29_Applies => built = "ok" /\ kv = KVDriver

(***************************************************************************)
(* C30: the build of a deserializer terminates.                            *)
(***************************************************************************)
\* C30, as stated: a build that has started returns a deserializer or an
\* error, whatever the type, a record that refers to itself through a
\* pointer, a slice or a map included.
C30_AsStated == (built = "building") ~> (built \in {"ok", "error"})

====
